---------------------------- MODULE Spec2Model ----------------------------
(***************************************************************************)
(* A model of whatdocsays: the prescription parser (src/src/lib/parse.ts), *)
(* the schedule expander (src/src/lib/schedule.ts), the review screen that *)
(* edits parsed plans (src/src/app/review.tsx), and the schedule screen,   *)
(* the Today screen, the store and the notifier that turn the plans into   *)
(* reminders (src/src/app/schedule.tsx, src/src/store.ts,                  *)
(* src/src/lib/notify.ts).                                                 *)
(*                                                                         *)
(* Text is a sequence of characters.  An ASCII character is the string of  *)
(* length one that holds it; any other character is the string "U+XXXX"    *)
(* of its code point, so that "\b" and "\w", which in a JavaScript regular *)
(* expression without the u flag know ASCII only, can tell the two apart.  *)
(***************************************************************************)
EXTENDS Integers, Sequences, FiniteSets, TLC

VARIABLES
    pc,            \* where a call of parsePrescriptionText or expandPlan stands
    raw,           \* parsePrescriptionText's argument
    parsed,        \* parsePrescriptionText's result
    plan,          \* expandPlan's plan
    startAt,       \* expandPlan's start
    horizonDays,   \* expandPlan's horizonDays
    events,        \* expandPlan's result
    reviewText,    \* ReviewScreen's text
    plans,         \* ReviewScreen's plans
    errorMessage,  \* ReviewScreen's errorMessage
    draft,         \* the store's draft
    edits,         \* how many edits the reviewer made since the last parse
    scheduled,     \* the notifications the system holds pending
    storeEvents,   \* the store's events
    notificationRefs, \* the store's notificationRefs
    medPlans,      \* the store's medPlans
    planIndex,     \* handleSchedule's place in its loop over the plans
    issued,        \* how many notification identifiers the system has issued
    taps,          \* how many handlers of the two screens have run
    handlers,      \* the handlers of the Today screen that wait at an await
    alert          \* the title of the last alert of the schedule screen

callVars == <<pc, raw, parsed, plan, startAt, horizonDays, events>>
reviewVars == <<reviewText, plans, errorMessage, draft, edits>>
appVars == <<scheduled, storeEvents, notificationRefs, medPlans, planIndex, issued, taps,
             handlers, alert>>
vars == <<pc, raw, parsed, plan, startAt, horizonDays, events,
          reviewText, plans, errorMessage, draft, edits,
          scheduled, storeEvents, notificationRefs, medPlans, planIndex, issued, taps,
          handlers, alert>>

----------------------------------------------------------------------------
(* Characters *)

Chars(s) == [i \in 1..Len(s) |-> SubSeq(s, i, i)]

Range(f) == {f[i] : i \in DOMAIN f}

AsciiLower == Chars("abcdefghijklmnopqrstuvwxyz")
AsciiUpper == Chars("ABCDEFGHIJKLMNOPQRSTUVWXYZ")
Digits == Range(Chars("0123456789"))

EmDash == "U+2014"
EnDash == "U+2013"
Bullet == "U+2022"

\* The Cyrillic letters the source's patterns and the inputs use:
\* <<the Latin letter that writes it in Cyr("..."), lower case, upper case>>.
CyrLetters ==
    << <<"a", "U+0430", "U+0410">>,   \* а
       <<"b", "U+0431", "U+0411">>,   \* б
       <<"v", "U+0432", "U+0412">>,   \* в
       <<"g", "U+0433", "U+0413">>,   \* г
       <<"d", "U+0434", "U+0414">>,   \* д
       <<"e", "U+0435", "U+0415">>,   \* е
       <<"E", "U+0451", "U+0401">>,   \* ё
       <<"Z", "U+0436", "U+0416">>,   \* ж
       <<"z", "U+0437", "U+0417">>,   \* з
       <<"i", "U+0438", "U+0418">>,   \* и
       <<"j", "U+0439", "U+0419">>,   \* й
       <<"k", "U+043A", "U+041A">>,   \* к
       <<"l", "U+043B", "U+041B">>,   \* л
       <<"m", "U+043C", "U+041C">>,   \* м
       <<"n", "U+043D", "U+041D">>,   \* н
       <<"o", "U+043E", "U+041E">>,   \* о
       <<"p", "U+043F", "U+041F">>,   \* п
       <<"r", "U+0440", "U+0420">>,   \* р
       <<"s", "U+0441", "U+0421">>,   \* с
       <<"t", "U+0442", "U+0422">>,   \* т
       <<"u", "U+0443", "U+0423">>,   \* у
       <<"f", "U+0444", "U+0424">>,   \* ф
       <<"x", "U+0445", "U+0425">>,   \* х
       <<"C", "U+0447", "U+0427">>,   \* ч
       <<"y", "U+044B", "U+042B">>,   \* ы
       <<"q", "U+044C", "U+042C">>,   \* ь
       <<"U", "U+044E", "U+042E">>,   \* ю
       <<"A", "U+044F", "U+042F">> >> \* я

CyrLower == {CyrLetters[i][2] : i \in DOMAIN CyrLetters}
CyrUpper == {CyrLetters[i][3] : i \in DOMAIN CyrLetters}

\* One Cyrillic letter, written by its Latin letter.
CyrChar(x) ==
    IF \E i \in DOMAIN CyrLetters : CyrLetters[i][1] = x
    THEN CyrLetters[CHOOSE i \in DOMAIN CyrLetters : CyrLetters[i][1] = x][2]
    ELSE x

\* Lower-case Cyrillic text written in Latin letters; every other character
\* (a space, a digit, "/") stands for itself.
Cyr(s) == [i \in 1..Len(s) |-> CyrChar(SubSeq(s, i, i))]

\* The same text with its first letter in upper case.
CyrCap(s) ==
    LET t == Cyr(s)
        k == CHOOSE i \in DOMAIN CyrLetters : CyrLetters[i][2] = t[1]
    IN  <<CyrLetters[k][3]>> \o Tail(t)

\* upper case to lower case
LowerOf ==
    [c \in Range(AsciiUpper) \cup CyrUpper |->
        IF c \in CyrUpper
        THEN CyrLetters[CHOOSE i \in DOMAIN CyrLetters : CyrLetters[i][3] = c][2]
        ELSE AsciiLower[CHOOSE i \in 1..26 : AsciiUpper[i] = c]]

\* String.prototype.toLowerCase, one character.
ToLower(c) == IF c \in DOMAIN LowerOf THEN LowerOf[c] ELSE c

ToLowerCase(txt) ==
    SelectSeq([i \in 1..Len(txt) |-> ToLower(txt[i])], LAMBDA c : TRUE)

AsciiLetters == Range(AsciiLower) \cup Range(AsciiUpper)
\* \p{L}
Letters == AsciiLetters \cup CyrLower \cup CyrUpper
\* \w of a pattern without the u flag
WordChars == AsciiLetters \cup Digits \cup {"_"}
\* \s
Spaces == {" ", "\t", "\n", "\r", "\f", "U+00A0"}
\* the characters "." does not match
LineTerminators == {"\n", "\r", "U+2028", "U+2029"}

----------------------------------------------------------------------------
(* Regular expressions: the syntax tree of a pattern and a backtracking    *)
(* matcher.  Match returns the states in which a match of the pattern that *)
(* starts in a state can end, in the order in which JavaScript's           *)
(* backtracking tries them (an alternative before the next, a greedy       *)
(* quantifier's longest first): the first is the match JavaScript reports. *)
(* A pattern with the i flag is written in lower case and is matched       *)
(* against the text in lower case.                                         *)

Lit(s) == [t |-> "lit", cs |-> Chars(s)]
LitC(cs) == [t |-> "lit", cs |-> cs]
OneOf(S) == [t |-> "set", cs |-> S]
NoneOf(S) == [t |-> "nset", cs |-> S]
AnyChar == [t |-> "any"]
Cat(rs) == [t |-> "seq", rs |-> rs]
Alt(rs) == [t |-> "alt", rs |-> rs]
Opt(r) == [t |-> "opt", r |-> r]
Star(r) == [t |-> "star", r |-> r]
Plus(r) == [t |-> "plus", r |-> r]
WordB == [t |-> "wb"]
Bol == [t |-> "bol"]
Eol == [t |-> "eol"]
Group(n, r) == [t |-> "cap", n |-> n, r |-> r]

Digit == OneOf(Digits)
Space == OneOf(Spaces)

\* a state of a match: the position p to match next, the groups c so far
NoCaps == << <<0, 0>>, <<0, 0>> >>

LitAt(cs, txt, p) ==
    /\ p + Len(cs) - 1 <= Len(txt)
    /\ \A k \in 1..Len(cs) : txt[p + k - 1] = cs[k]

IsWordAt(txt, p) == p >= 1 /\ p <= Len(txt) /\ txt[p] \in WordChars

\* \b before position p
AtWordBoundary(txt, p) == IsWordAt(txt, p - 1) # IsWordAt(txt, p)

\* the concatenation of a sequence of sequences, by halves
RECURSIVE FlattenSeq(_)
FlattenSeq(ss) ==
    IF ss = << >> THEN << >>
    ELSE IF Len(ss) = 1 THEN ss[1]
    ELSE FlattenSeq(SubSeq(ss, 1, Len(ss) \div 2))
         \o FlattenSeq(SubSeq(ss, Len(ss) \div 2 + 1, Len(ss)))

\* (SelectSeq keeps every element: the model checker then evaluates each
\* element of ss once)
Flatten(ss) == FlattenSeq(SelectSeq(ss, LAMBDA x : TRUE))

\* whether a pattern of one character (a class or ".") matches the character c
OneChar(re) == re.t \in {"set", "nset", "any"}

Accepts(re, c) ==
    CASE re.t = "set" -> c \in re.cs
      [] re.t = "nset" -> c \notin re.cs
      [] re.t = "any" -> c \notin LineTerminators

\* the number of characters from position p on that a pattern of one
\* character matches one after the other
Run(re, txt, p) ==
    CHOOSE n \in 0..(Len(txt) + 1 - p) :
        /\ \A j \in 0..(n - 1) : Accepts(re, txt[p + j])
        /\ p + n > Len(txt) \/ ~Accepts(re, txt[p + n])

\* the ends of a greedy repetition of a pattern of one character that can
\* match n times and must match least times: the longest first
Greedy(st, n, least) ==
    [k \in 1..(n + 1 - least) |-> [st EXCEPT !.p = @ + n + 1 - k]]

\* The states in which a match of re from state st can end, in the order in
\* which a backtracking matcher tries them: the first is the match it makes.
RECURSIVE Match(_, _, _)
Match(re, txt, st) ==
    CASE re.t = "lit" ->
            IF LitAt(re.cs, txt, st.p)
            THEN << [st EXCEPT !.p = @ + Len(re.cs)] >> ELSE << >>
      [] OneChar(re) ->
            IF st.p <= Len(txt) /\ Accepts(re, txt[st.p])
            THEN << [st EXCEPT !.p = @ + 1] >> ELSE << >>
      [] re.t = "seq" ->
            IF re.rs = << >> THEN <<st>>
            ELSE LET first == Match(Head(re.rs), txt, st)
                     rest == [t |-> "seq", rs |-> Tail(re.rs)]
                 IN  IF Len(re.rs) = 1 \/ first = << >> THEN first
                     ELSE IF Len(first) = 1 THEN Match(rest, txt, first[1])
                     ELSE Flatten([k \in 1..Len(first) |-> Match(rest, txt, first[k])])
      [] re.t = "alt" ->
            Flatten([i \in 1..Len(re.rs) |-> Match(re.rs[i], txt, st)])
      [] re.t = "opt" -> Match(re.r, txt, st) \o <<st>>
      [] re.t = "star" /\ OneChar(re.r) -> Greedy(st, Run(re.r, txt, st.p), 0)
      [] re.t = "plus" /\ OneChar(re.r) -> Greedy(st, Run(re.r, txt, st.p), 1)
      [] re.t = "star" /\ ~OneChar(re.r) ->
            \* greedy; a repetition that consumes nothing ends the loop
            LET once == SelectSeq(Match(re.r, txt, st), LAMBDA s : s.p > st.p)
            IN  Flatten([k \in 1..Len(once) |-> Match(re, txt, once[k])]) \o <<st>>
      [] re.t = "plus" /\ ~OneChar(re.r) ->
            LET once == SelectSeq(Match(re.r, txt, st), LAMBDA s : s.p > st.p)
                more == [t |-> "star", r |-> re.r]
            IN  Flatten([k \in 1..Len(once) |-> Match(more, txt, once[k])])
      [] re.t = "wb" -> IF AtWordBoundary(txt, st.p) THEN <<st>> ELSE << >>
      [] re.t = "bol" -> IF st.p = 1 THEN <<st>> ELSE << >>
      [] re.t = "eol" -> IF st.p = Len(txt) + 1 THEN <<st>> ELSE << >>
      [] re.t = "cap" ->
            LET r == Match(re.r, txt, st)
            IN  [k \in 1..Len(r) |-> [r[k] EXCEPT !.c[re.n] = <<st.p, r[k].p>>]]

NoMatch == [ok |-> FALSE, s |-> 0, e |-> 0, c |-> NoCaps]

\* Whether a pattern matches the empty text somewhere.
RECURSIVE Nullable(_)
Nullable(re) ==
    CASE re.t = "lit" -> re.cs = << >>
      [] re.t \in {"set", "nset", "any"} -> FALSE
      [] re.t = "seq" -> \A i \in 1..Len(re.rs) : Nullable(re.rs[i])
      [] re.t = "alt" -> \E i \in 1..Len(re.rs) : Nullable(re.rs[i])
      [] re.t \in {"opt", "star", "wb", "bol", "eol"} -> TRUE
      [] re.t \in {"plus", "cap"} -> Nullable(re.r)

\* The characters a match with at least one character can begin with:
\* every character when all is TRUE, else those of cs.
RECURSIVE First(_)
First(re) ==
    CASE re.t = "lit" -> [all |-> FALSE, cs |-> IF re.cs = << >> THEN {} ELSE {re.cs[1]}]
      [] re.t = "set" -> [all |-> FALSE, cs |-> re.cs]
      [] re.t \in {"nset", "any"} -> [all |-> TRUE, cs |-> {}]
      [] re.t = "seq" ->
            IF re.rs = << >> THEN [all |-> FALSE, cs |-> {}]
            ELSE LET f == First(Head(re.rs))
                     g == IF Nullable(Head(re.rs))
                          THEN First([t |-> "seq", rs |-> Tail(re.rs)])
                          ELSE [all |-> FALSE, cs |-> {}]
                 IN  [all |-> f.all \/ g.all, cs |-> f.cs \cup g.cs]
      [] re.t = "alt" ->
            [all |-> \E i \in 1..Len(re.rs) : First(re.rs[i]).all,
             cs |-> UNION {First(re.rs[i]).cs : i \in 1..Len(re.rs)}]
      [] re.t \in {"wb", "bol", "eol"} -> [all |-> FALSE, cs |-> {}]
      [] re.t \in {"opt", "star", "plus", "cap"} -> First(re.r)

\* the least number of a set of numbers that is not empty
Least(S) == CHOOSE i \in S : \A j \in S : i <= j

\* Whether a match can begin at position i.  A position whose character
\* cannot begin a match is passed over without trying (f is First(re), or
\* all characters for a pattern that matches the empty text).
StartsAt(re, txt, f, i) ==
    /\ f.all \/ (i <= Len(txt) /\ txt[i] \in f.cs)
    /\ Match(re, txt, [p |-> i, c |-> NoCaps]) # << >>

\* The leftmost match that starts at a position of lo..hi.  s is its first
\* position, e the position after its last, c its groups.
Scan(re, txt, f, lo, hi) ==
    LET Found(i, r) == [ok |-> TRUE, s |-> i, e |-> r[1].p, c |-> r[1].c]
        At(i) == Found(i, Match(re, txt, [p |-> i, c |-> NoCaps]))
        Leftmost(S) == IF S = {} THEN NoMatch ELSE At(Least(S))
    IN  Leftmost({i \in lo..hi : StartsAt(re, txt, f, i)})

\* RegExp.prototype.exec from position i; ci is the pattern's i flag
ExecFrom(re, txt, ci, i) ==
    IF i > Len(txt) + 1 THEN NoMatch
    ELSE Scan(re, IF ci THEN ToLowerCase(txt) ELSE txt,
              IF Nullable(re) THEN [all |-> TRUE, cs |-> {}] ELSE First(re),
              i, Len(txt) + 1)

Exec(re, txt, ci) == ExecFrom(re, txt, ci, 1)

\* RegExp.prototype.test
Test(re, txt, ci) == Exec(re, txt, ci).ok

Slice(txt, s, e) == SubSeq(txt, s, e - 1)

\* match[n] of a match m
GroupText(txt, m, n) == Slice(txt, m.c[n][1], m.c[n][2])

\* String.prototype.replace with a pattern without the g flag
ReplaceFirst(re, txt, ci, by) ==
    LET Replaced(m) ==
            IF m.ok THEN Slice(txt, 1, m.s) \o by \o Slice(txt, m.e, Len(txt) + 1)
            ELSE txt
    IN  IF txt = << >> /\ ~Nullable(re) THEN txt ELSE Replaced(Exec(re, txt, ci))

\* String.prototype.replace with a pattern with the g flag (no pattern of
\* the source matches the empty string)
RECURSIVE ReplaceAllFrom(_, _, _, _, _)
ReplaceAllFrom(re, txt, ci, by, i) ==
    LET Replaced(m) ==
            IF m.ok /\ m.e > m.s
            THEN Slice(txt, i, m.s) \o by \o ReplaceAllFrom(re, txt, ci, by, m.e)
            ELSE Slice(txt, i, Len(txt) + 1)
    IN  Replaced(ExecFrom(re, txt, ci, i))

ReplaceAll(re, txt, ci, by) ==
    IF txt = << >> THEN txt ELSE ReplaceAllFrom(re, txt, ci, by, 1)

\* String.prototype.matchAll: the matches, left to right
RECURSIVE MatchAllFrom(_, _, _, _)
MatchAllFrom(re, txt, ci, i) ==
    LET Matches(m) ==
            IF m.ok /\ m.e > m.s THEN <<m>> \o MatchAllFrom(re, txt, ci, m.e) ELSE << >>
    IN  Matches(ExecFrom(re, txt, ci, i))

MatchAll(re, txt, ci) == MatchAllFrom(re, txt, ci, 1)

\* String.prototype.trim
RECURSIVE TrimStart(_)
TrimStart(txt) ==
    IF txt # << >> /\ Head(txt) \in Spaces THEN TrimStart(Tail(txt)) ELSE txt

RECURSIVE TrimEnd(_)
TrimEnd(txt) ==
    IF txt # << >> /\ txt[Len(txt)] \in Spaces
    THEN TrimEnd(SubSeq(txt, 1, Len(txt) - 1)) ELSE txt

Trim(txt) == TrimEnd(TrimStart(txt))

\* Array.prototype.join
RECURSIVE Join(_, _)
Join(ls, sep) ==
    IF ls = << >> THEN << >>
    ELSE IF Len(ls) = 1 THEN ls[1]
         ELSE ls[1] \o sep \o Join(Tail(ls), sep)

----------------------------------------------------------------------------
(* Numbers and character codes *)

\* An optional value: << >> is absent (undefined), <<v>> is present.
None == << >>
Some(v) == <<v>>

\* String.prototype.charCodeAt, for the characters of the inputs
\* (codes 32 to 95, and 97 to 126 in AsciiLower's part)
AsciiPrintable ==
    Chars(" !\"#$%&'()*+,-./0123456789:;<=>?@ABCDEFGHIJKLMNOPQRSTUVWXYZ[\\]^_")

AsciiTail == Chars("abcdefghijklmnopqrstuvwxyz{|}~")

HexDigits == Chars("0123456789ABCDEF")

HexVal(c) == (CHOOSE i \in 1..16 : HexDigits[i] = c) - 1

Ord(c) ==
    IF Len(c) = 6
    THEN HexVal(SubSeq(c, 3, 3)) * 4096 + HexVal(SubSeq(c, 4, 4)) * 256
         + HexVal(SubSeq(c, 5, 5)) * 16 + HexVal(SubSeq(c, 6, 6))
    ELSE IF c = "\t" THEN 9
    ELSE IF c = "\n" THEN 10
    ELSE IF c = "\f" THEN 12
    ELSE IF c = "\r" THEN 13
    ELSE IF c \in Range(AsciiTail)
    THEN 96 + (CHOOSE i \in 1..Len(AsciiTail) : AsciiTail[i] = c)
    ELSE 31 + (CHOOSE i \in 1..Len(AsciiPrintable) : AsciiPrintable[i] = c)

DigitVal(c) == Ord(c) - 48

RECURSIVE DigitsToNat(_)
DigitsToNat(cs) ==
    IF cs = << >> THEN 0
    ELSE 10 * DigitsToNat(SubSeq(cs, 1, Len(cs) - 1)) + DigitVal(cs[Len(cs)])

RECURSIVE NatToChars(_)
NatToChars(n) ==
    IF n < 10 THEN <<HexDigits[n + 1]>>
    ELSE NatToChars(n \div 10) \o <<HexDigits[(n % 10) + 1]>>

RECURSIVE Pow10(_)
Pow10(k) == IF k = 0 THEN 1 ELSE 10 * Pow10(k - 1)

\* A number: the decimal m / 10^e with e as small as can be, or NaN.
NaN == [nan |-> TRUE, m |-> 0, e |-> 0]

RECURSIVE Normalized(_, _)
Normalized(m, e) ==
    IF e > 0 /\ m % 10 = 0 THEN Normalized(m \div 10, e - 1)
    ELSE [nan |-> FALSE, m |-> m, e |-> e]

Num(n) == [nan |-> FALSE, m |-> n, e |-> 0]

\* the length of the longest prefix of cs made of digits
RECURSIVE DigitPrefix(_)
DigitPrefix(cs) ==
    IF cs # << >> /\ Head(cs) \in Digits THEN 1 + DigitPrefix(Tail(cs)) ELSE 0

\* Number.parseFloat of a text without sign or exponent: the longest prefix
\* "digits", "digits.", "digits.digits" or ".digits" after leading white
\* space, NaN when there is none.
ParseFloat(value) ==
    LET t == TrimStart(value)
        n == DigitPrefix(t)
        rest == SubSeq(t, n + 1, Len(t))
        f == IF rest # << >> /\ Head(rest) = "." THEN DigitPrefix(Tail(rest)) ELSE 0
    IN  IF n + f = 0 THEN NaN
        ELSE Normalized(DigitsToNat(SubSeq(t, 1, n)) * Pow10(f)
                          + DigitsToNat(SubSeq(rest, 2, f + 1)), f)

\* Number.parseInt(value, 10) of a text without sign: None is NaN
ParseInt(value) ==
    LET t == TrimStart(value)
        n == DigitPrefix(t)
    IN  IF n = 0 THEN None ELSE Some(DigitsToNat(SubSeq(t, 1, n)))

\* String(number), for the decimals of the inputs (no exponent notation)
NumToChars(x) ==
    IF x.nan THEN Chars("NaN")
    ELSE IF x.e = 0 THEN NatToChars(x.m)
    ELSE LET frac == NatToChars(x.m % Pow10(x.e))
             pad == [i \in 1..(x.e - Len(frac)) |-> "0"]
         IN  NatToChars(x.m \div Pow10(x.e)) \o <<".">> \o pad \o frac

\* a < b in the order of Array.prototype.sort without a comparer: by UTF-16
\* code units, a proper prefix first
RECURSIVE LessStr(_, _)
LessStr(a, b) ==
    IF b = << >> THEN FALSE
    ELSE IF a = << >> THEN TRUE
    ELSE IF Ord(Head(a)) # Ord(Head(b)) THEN Ord(Head(a)) < Ord(Head(b))
    ELSE LessStr(Tail(a), Tail(b))

RECURSIVE InsertSorted(_, _)
InsertSorted(x, ls) ==
    IF ls = << >> THEN <<x>>
    ELSE IF LessStr(x, Head(ls)) THEN <<x>> \o ls
    ELSE <<Head(ls)>> \o InsertSorted(x, Tail(ls))

\* Array.prototype.sort of strings (stable)
RECURSIVE SortStrings(_)
SortStrings(ls) ==
    IF ls = << >> THEN << >>
    ELSE InsertSorted(ls[Len(ls)], SortStrings(SubSeq(ls, 1, Len(ls) - 1)))

\* Array.from(new Set(ls)): the first occurrence of each value, in order
RECURSIVE Dedupe(_)
Dedupe(ls) ==
    IF ls = << >> THEN << >>
    ELSE LET init == Dedupe(SubSeq(ls, 1, Len(ls) - 1))
             x == ls[Len(ls)]
         IN  IF x \in Range(init) THEN init ELSE Append(init, x)

----------------------------------------------------------------------------
(* The parser: src/src/lib/parse.ts *)

Ru(s) == LitC(Cyr(s))

\* \d+(?:[.,]\d+)?
DecimalRe == Cat(<<Plus(Digit), Opt(Cat(<<OneOf({".", ","}), Plus(Digit)>>))>>)

\* /(\d+(?:[.,]\d+)?)\s?(mg|мг|ml|мл)/i
STRENGTH_REGEX ==
    Cat(<<Group(1, DecimalRe), Opt(Space),
          Group(2, Alt(<<Lit("mg"), Ru("mg"), Lit("ml"), Ru("ml")>>))>>)

\* /(\d+)\s?(?:days?|сут|дн(?:ей|я)?)/i
DURATION_REGEX ==
    Cat(<<Group(1, Plus(Digit)), Opt(Space),
          Alt(<<Cat(<<Lit("day"), Opt(Lit("s"))>>),
                Ru("sut"),
                Cat(<<Ru("dn"), Opt(Alt(<<Ru("ej"), Ru("A")>>))>>)>>)>>)

\* /(\d+(?:[.,]\d+)?)\s*(таб(?:летка|летки|леток)?|табл\.?|tab(?:let)?s?
\*   |капс(?:ула|улы)?|caps?(?:ule)?s?|drops?|капли|sprays?|спрей(?:ы|)
\*   |ml|мл|mg|мг)/i
DOSE_REGEX ==
    Cat(<<Group(1, DecimalRe), Star(Space),
          Group(2, Alt(<<
              Cat(<<Ru("tab"), Opt(Alt(<<Ru("letka"), Ru("letki"), Ru("letok")>>))>>),
              Cat(<<Ru("tabl"), Opt(Lit("."))>>),
              Cat(<<Lit("tab"), Opt(Lit("let")), Opt(Lit("s"))>>),
              Cat(<<Ru("kaps"), Opt(Alt(<<Ru("ula"), Ru("uly")>>))>>),
              Cat(<<Lit("cap"), Opt(Lit("s")), Opt(Lit("ule")), Opt(Lit("s"))>>),
              Cat(<<Lit("drop"), Opt(Lit("s"))>>),
              Ru("kapli"),
              Cat(<<Lit("spray"), Opt(Lit("s"))>>),
              Cat(<<Ru("sprej"), Alt(<<Ru("y"), Lit("")>>)>>),
              Lit("ml"), Ru("ml"), Lit("mg"), Ru("mg")>>))>>)

\* /(\d{1,2})[:.](\d{2})/g
TIME_REGEX ==
    Cat(<<Group(1, Cat(<<Digit, Opt(Digit)>>)), OneOf({":", "."}),
          Group(2, Cat(<<Digit, Digit>>))>>)

\* раз(?:а)? в день
RazVDen == Cat(<<Ru("raz"), Opt(Ru("a")), Ru(" v denq")>>)

\* р\/?д
RD == Cat(<<Ru("r"), Opt(Lit("/")), Ru("d")>>)

\* Nx\/?day
XDay(n) == Cat(<<Lit(n), Lit("x"), Opt(Lit("/")), Lit("day")>>)

\* /\b(as needed|по\s+(?:требованию|необходимости))\b/i
PRN_REGEX ==
    Cat(<<WordB,
          Alt(<<Lit("as needed"),
                Cat(<<Ru("po"), Plus(Space),
                      Alt(<<Ru("trebovaniU"), Ru("neobxodimosti")>>)>>)>>),
          WordB>>)

\* The patterns are only tested, so their one group is left out.
FREQUENCY_PATTERNS ==
    << \* /\b(qd|once daily|1\s*(?:time a day|раз(?:а)? в день)|ежедневно)\b/i
       [regex |-> Cat(<<WordB,
                        Alt(<<Lit("qd"), Lit("once daily"),
                              Cat(<<Lit("1"), Star(Space),
                                    Alt(<<Lit("time a day"), RazVDen>>)>>),
                              Ru("eZednevno")>>),
                        WordB>>),
        value |-> "QD"],
       \* /\b(bid|2x\/?day|2\s*(?:times a day|раз(?:а)? в день|р\/?д))\b/i
       [regex |-> Cat(<<WordB,
                        Alt(<<Lit("bid"), XDay("2"),
                              Cat(<<Lit("2"), Star(Space),
                                    Alt(<<Lit("times a day"), RazVDen, RD>>)>>)>>),
                        WordB>>),
        value |-> "BID"],
       \* /\b(tid|3x\/?day|3\s*(?:times a day|р\/?д))\b/i
       [regex |-> Cat(<<WordB,
                        Alt(<<Lit("tid"), XDay("3"),
                              Cat(<<Lit("3"), Star(Space),
                                    Alt(<<Lit("times a day"), RD>>)>>)>>),
                        WordB>>),
        value |-> "TID"],
       \* /\b(qid|4x\/?day|4\s*(?:times a day|р\/?д))\b/i
       [regex |-> Cat(<<WordB,
                        Alt(<<Lit("qid"), XDay("4"),
                              Cat(<<Lit("4"), Star(Space),
                                    Alt(<<Lit("times a day"), RD>>)>>)>>),
                        WordB>>),
        value |-> "QID"],
       \* /\b(qhs|at\s+night|на\s+ночь)\b/i
       [regex |-> Cat(<<WordB,
                        Alt(<<Lit("qhs"),
                              Cat(<<Lit("at"), Plus(Space), Lit("night")>>),
                              Cat(<<Ru("na"), Plus(Space), Ru("noCq")>>)>>),
                        WordB>>),
        value |-> "QHS"],
       \* /\b(qam|in\s+the\s+morning|утром)\b/i
       [regex |-> Cat(<<WordB,
                        Alt(<<Lit("qam"),
                              Cat(<<Lit("in"), Plus(Space), Lit("the"), Plus(Space),
                                    Lit("morning")>>),
                              Ru("utrom")>>),
                        WordB>>),
        value |-> "QAM"],
       \* /\b(qpm|in\s+the\s+evening|вечером)\b/i
       [regex |-> Cat(<<WordB,
                        Alt(<<Lit("qpm"),
                              Cat(<<Lit("in"), Plus(Space), Lit("the"), Plus(Space),
                                    Lit("evening")>>),
                              Ru("veCerom")>>),
                        WordB>>),
        value |-> "QPM"],
       \* /\b(every other day|через день)\b/i
       [regex |-> Cat(<<WordB, Alt(<<Lit("every other day"), Ru("Cerez denq")>>), WordB>>),
        value |-> "QOD"],
       \* /\b(as needed|по\s+(?:требованию|необходимости))\b/i
       [regex |-> PRN_REGEX, value |-> "PRN"] >>

\* /\b(?:three times|три раза)\b/i, /\b(?:twice|два раза)\b/i,
\* /\b(?:once|один раз)\b/i
LOOSE_PATTERNS ==
    << [regex |-> Cat(<<WordB, Alt(<<Lit("three times"), Ru("tri raza")>>), WordB>>),
        value |-> "TID"],
       [regex |-> Cat(<<WordB, Alt(<<Lit("twice"), Ru("dva raza")>>), WordB>>),
        value |-> "BID"],
       [regex |-> Cat(<<WordB, Alt(<<Lit("once"), Ru("odin raz")>>), WordB>>),
        value |-> "QD"] >>

WHEN_PATTERNS ==
    << \* /before meals?|до\s+еды/i
       [regex |-> Alt(<<Cat(<<Lit("before meal"), Opt(Lit("s"))>>),
                        Cat(<<Ru("do"), Plus(Space), Ru("edy")>>)>>),
        value |-> "BEFORE_MEAL"],
       \* /after meals?|после\s+еды/i
       [regex |-> Alt(<<Cat(<<Lit("after meal"), Opt(Lit("s"))>>),
                        Cat(<<Ru("posle"), Plus(Space), Ru("edy")>>)>>),
        value |-> "AFTER_MEAL"],
       \* /\bmorning|утром\b/i
       [regex |-> Alt(<<Cat(<<WordB, Lit("morning")>>), Cat(<<Ru("utrom"), WordB>>)>>),
        value |-> "MORN"],
       \* /\bnoon|дн[её]м\b/i
       [regex |-> Alt(<<Cat(<<WordB, Lit("noon")>>),
                        Cat(<<Ru("dn"), OneOf({CyrChar("e"), CyrChar("E")}), Ru("m"),
                              WordB>>)>>),
        value |-> "NOON"],
       \* /\bevening|вечером\b/i
       [regex |-> Alt(<<Cat(<<WordB, Lit("evening")>>), Cat(<<Ru("veCerom"), WordB>>)>>),
        value |-> "EVE"],
       \* /\bnight|ночью\b/i
       [regex |-> Alt(<<Cat(<<WordB, Lit("night")>>), Cat(<<Ru("noCqU"), WordB>>)>>),
        value |-> "NIGHT"] >>

ROUTE_PATTERNS ==
    << \* /\b(po|per os|by mouth)\b/i
       [regex |-> Cat(<<WordB, Alt(<<Lit("po"), Lit("per os"), Lit("by mouth")>>), WordB>>),
        value |-> "po"],
       \* /\bim\b/i
       [regex |-> Cat(<<WordB, Lit("im"), WordB>>), value |-> "im"],
       \* /\biv\b/i
       [regex |-> Cat(<<WordB, Lit("iv"), WordB>>), value |-> "iv"],
       \* /\binhal(e|ation)|inh\b/i
       [regex |-> Alt(<<Cat(<<WordB, Lit("inhal"), Alt(<<Lit("e"), Lit("ation")>>)>>),
                        Cat(<<Lit("inh"), WordB>>)>>),
        value |-> "inh"],
       \* /sublingual|под язык|sl\b/i
       [regex |-> Alt(<<Lit("sublingual"), Ru("pod Azyk"), Cat(<<Lit("sl"), WordB>>)>>),
        value |-> "sl"],
       \* /topical|наружно/i
       [regex |-> Alt(<<Lit("topical"), Ru("naruZno")>>), value |-> "topical"],
       \* /nasal|intranasal|спрей/i
       [regex |-> Alt(<<Lit("nasal"), Lit("intranasal"), Ru("sprej")>>), value |-> "nasal"],
       \* /ophthalmic|глазные/i
       [regex |-> Alt(<<Lit("ophthalmic"), Ru("glaznye")>>), value |-> "oph"] >>

DOSE_UNIT_MAP ==
    [k \in {Cyr("tab"), Cyr("tabletki"), Cyr("tabletka"), Cyr("tabl"),
            Chars("tab"), Chars("tabs"), Chars("tablet"), Chars("tablets"),
            Cyr("kapsula"), Cyr("kaps"), Cyr("kapsuly"),
            Chars("cap"), Chars("caps"), Chars("capsule"), Chars("capsules"),
            Chars("drop"), Chars("drops"), Cyr("kapli"),
            Chars("spray"), Chars("sprays"), Cyr("sprej"),
            Chars("ml"), Cyr("ml"), Chars("mg"), Cyr("mg")} |->
        IF k \in {Cyr("tab"), Cyr("tabletki"), Cyr("tabletka"), Cyr("tabl"),
                  Chars("tab"), Chars("tabs"), Chars("tablet"), Chars("tablets")}
        THEN "tab"
        ELSE IF k \in {Cyr("kapsula"), Cyr("kaps"), Cyr("kapsuly"),
                       Chars("cap"), Chars("caps"), Chars("capsule"), Chars("capsules")}
        THEN "caps"
        ELSE IF k \in {Chars("drop"), Chars("drops"), Cyr("kapli")} THEN "drops"
        ELSE IF k \in {Chars("spray"), Chars("sprays"), Cyr("sprej")} THEN "sprays"
        ELSE IF k \in {Chars("ml"), Cyr("ml")} THEN "ml"
        ELSE "mg"]

\* /^[-•–—\d.\)\s]+/
BulletRe ==
    Cat(<<Bol, Plus(OneOf({"-", Bullet, EnDash, EmDash, ".", ")"} \cup Digits \cup Spaces))>>)

stripBullet(line) == Trim(ReplaceFirst(BulletRe, line, FALSE, << >>))

\* String.prototype.includes
Includes(txt, sub) ==
    \E i \in 1..(Len(txt) - Len(sub) + 1) : SubSeq(txt, i, i + Len(sub) - 1) = sub

Comma == Lit(",")
Colon == Lit(":")

normalizeNumber(value) == ParseFloat(ReplaceFirst(Comma, value, FALSE, <<".">>))

\* /\r?\n/
LineBreak == Cat(<<Opt(Lit("\r")), Lit("\n")>>)

\* String.prototype.split with a pattern or a separator that is not empty
RECURSIVE Split(_, _)
Split(re, txt) ==
    LET Parts(m) ==
            IF m.ok /\ m.e > m.s
            THEN <<Slice(txt, 1, m.s)>> \o Split(re, Slice(txt, m.e, Len(txt) + 1))
            ELSE <<txt>>
    IN  Parts(Exec(re, txt, FALSE))

\* String.prototype.split(/\r?\n/)
SplitLines(txt) == Split(LineBreak, txt)

\* /(mg|мг|ml|мл)/i
KeywordsRe == Alt(<<Lit("mg"), Ru("mg"), Lit("ml"), Ru("ml")>>)

\* /^[A-Za-zА-ЯЁ]/
HeaderRe == Cat(<<Bol, OneOf(AsciiLetters \cup CyrUpper)>>)

\* isNewMedicationLine of a collector that starts a block at blank lines only
isNewMedicationLineNever(line) == FALSE

isNewMedicationLine(line) ==
    IF line = << >> THEN FALSE
    ELSE LET trimmed == stripBullet(line)
             hasStrength == Test(STRENGTH_REGEX, line, TRUE)
             hasKeywords == Test(KeywordsRe, line, TRUE)
             looksLikeHeader == Test(HeaderRe, trimmed, FALSE)
         IN  (hasStrength \/ hasKeywords) /\ looksLikeHeader

\* the lines.forEach of collectBlocks: st is <<blocks, current>>
RECURSIVE CollectFrom(_, _, _)
CollectFrom(lines, i, st) ==
    IF i > Len(lines) THEN st
    ELSE LET line == lines[i]
             bs == st[1]
             current == st[2]
         IN  CollectFrom(lines, i + 1,
                 IF line = << >>
                 THEN IF current # << >> THEN <<Append(bs, current), << >> >> ELSE st
                 ELSE IF current # << >> /\ isNewMedicationLine(line)
                      THEN <<Append(bs, current), <<line>> >>
                      ELSE <<bs, Append(current, line)>>)

collectBlocks(rawText) ==
    LET \* .filter: a blank line after a blank line goes
        Filter(array) ==
            LET kept == SelectSeq([index \in 1..Len(array) |-> <<index, array[index]>>],
                                  LAMBDA x : ~(/\ x[2] = << >>
                                               /\ x[1] > 1
                                               /\ array[x[1] - 1] = << >>))
            IN  [k \in 1..Len(kept) |-> kept[k][2]]
        Lines(split) == Filter([i \in 1..Len(split) |-> Trim(split[i])])
        Blocks(st) == IF st[2] # << >> THEN Append(st[1], st[2]) ELSE st[1]
    IN  Blocks(CollectFrom(Lines(SplitLines(rawText)), 1, << << >>, << >> >>))

\* the first pattern of a table that the text matches, None when none does
FirstMatch(patterns, text) ==
    LET First1(S) == IF S = {} THEN None ELSE Some(patterns[Least(S)].value)
    IN  First1({i \in 1..Len(patterns) : Test(patterns[i].regex, text, TRUE)})

detectFrequency(text) ==
    LET first == FirstMatch(FREQUENCY_PATTERNS, text)
    IN  IF first # None THEN first ELSE FirstMatch(LOOSE_PATTERNS, text)

detectWhen(text) ==
    LET hits == SelectSeq(WHEN_PATTERNS, LAMBDA pattern : Test(pattern.regex, text, TRUE))
        matches == [i \in 1..Len(hits) |-> hits[i].value]
    IN  IF matches # << >> THEN Some(Dedupe(matches)) ELSE None

detectRoute(text) == FirstMatch(ROUTE_PATTERNS, text)

parseDose(text) ==
    LET Unit(map, unitCandidate) ==
            IF unitCandidate \in DOMAIN map THEN Some(map[unitCandidate])
            ELSE IF Includes(unitCandidate, <<"m", "g">>) THEN Some("mg")
            ELSE IF Includes(unitCandidate, <<"m", "l">>) THEN Some("ml")
            ELSE None
        Dose(amount, unit) ==
            IF unit = None \/ amount.nan THEN None
            ELSE Some([amount |-> amount, unit |-> unit[1]])
        FromMatch(match) ==
            IF ~match.ok THEN None
            ELSE Dose(normalizeNumber(GroupText(text, match, 1)),
                      Unit(DOSE_UNIT_MAP, ToLowerCase(GroupText(text, match, 2))))
    IN  FromMatch(Exec(DOSE_REGEX, text, TRUE))

parseDuration(text) ==
    LET Days(n) == IF n = None \/ n = Some(0) THEN None ELSE n
        FromMatch(match) ==
            IF ~match.ok THEN None ELSE Days(ParseInt(GroupText(text, match, 1)))
    IN  FromMatch(Exec(DURATION_REGEX, text, TRUE))

\* Number.prototype.toString().padStart(2, '0')
Pad2(n) == LET cs == NatToChars(n) IN IF Len(cs) < 2 THEN <<"0">> \o cs ELSE cs

\* extractTimes without Array.from(new Set(filtered))
extractTimesRepeated(text) ==
    LET Time(hours, minutes) ==
            IF hours = None \/ minutes = None THEN << >>
            ELSE Pad2(hours[1]) \o <<":">> \o Pad2(minutes[1])
        OfMatch(m) == Time(ParseInt(GroupText(text, m, 1)), ParseInt(GroupText(text, m, 2)))
        Times(filtered) == IF filtered # << >> THEN Some(filtered) ELSE None
        Matches(ms) ==
            Times(SelectSeq([i \in 1..Len(ms) |-> OfMatch(ms[i])],
                            LAMBDA value : value # << >>))
    IN  Matches(MatchAll(TIME_REGEX, text, FALSE))

extractTimes(text) ==
    LET Time(hours, minutes) ==
            IF hours = None \/ minutes = None THEN << >>
            ELSE Pad2(hours[1]) \o <<":">> \o Pad2(minutes[1])
        OfMatch(m) == Time(ParseInt(GroupText(text, m, 1)), ParseInt(GroupText(text, m, 2)))
        Times(filtered) == IF filtered # << >> THEN Some(Dedupe(filtered)) ELSE None
        Matches(ms) ==
            Times(SelectSeq([i \in 1..Len(ms) |-> OfMatch(ms[i])],
                            LAMBDA value : value # << >>))
    IN  Matches(MatchAll(TIME_REGEX, text, FALSE))

extractStrength(text) ==
    LET Strength(amount, unit) ==
            IF amount.nan THEN None ELSE Some(NumToChars(amount) \o <<" ">> \o unit)
        FromMatch(match) ==
            IF ~match.ok THEN None
            ELSE Strength(normalizeNumber(GroupText(text, match, 1)),
                          GroupText(text, match, 2))
    IN  FromMatch(Exec(STRENGTH_REGEX, text, TRUE))

DefaultDose == [amount |-> Num(1), unit |-> "tab"]

\* buildInstruction whose fallbacks are two capsules twice a day
buildInstructionOtherDefaults(text) ==
    LET Dose(found) == IF found # None THEN found[1] ELSE [amount |-> Num(2), unit |-> "caps"]
        Frequency(explicitPrn, detectedFrequency) ==
            IF explicitPrn THEN "PRN"
            ELSE IF detectedFrequency # None THEN detectedFrequency[1]
            ELSE "BID"
        Instruction(dose, frequency, times, when, duration) ==
            [dose |-> dose,
             frequency |-> frequency,
             timesOfDay |-> IF times # None THEN Some(SortStrings(times[1])) ELSE None,
             when |-> when,
             durationDays |-> duration,
             prn |-> IF frequency = "PRN" THEN Some(TRUE) ELSE None]
    IN  Instruction(Dose(parseDose(text)),
                    Frequency(Test(PRN_REGEX, text, TRUE), detectFrequency(text)),
                    extractTimes(text),
                    detectWhen(text),
                    parseDuration(text))

buildInstruction(text) ==
    LET Dose(found) == IF found # None THEN found[1] ELSE DefaultDose
        Frequency(explicitPrn, detectedFrequency) ==
            IF explicitPrn THEN "PRN"
            ELSE IF detectedFrequency # None THEN detectedFrequency[1]
            ELSE "QD"
        Instruction(dose, frequency, times, when, duration) ==
            [dose |-> dose,
             frequency |-> frequency,
             timesOfDay |-> IF times # None THEN Some(SortStrings(times[1])) ELSE None,
             when |-> when,
             durationDays |-> duration,
             prn |-> IF frequency = "PRN" THEN Some(TRUE) ELSE None]
    IN  Instruction(Dose(parseDose(text)),
                    Frequency(Test(PRN_REGEX, text, TRUE), detectFrequency(text)),
                    extractTimes(text),
                    detectWhen(text),
                    parseDuration(text))

\* /\p{L}+\s+\d+/u
WordNumberRe == Cat(<<Plus(OneOf(Letters)), Plus(Space), Plus(Digit)>>)

\* /[–—-].*/
DashClauseRe == Cat(<<OneOf({EnDash, EmDash, "-"}), Star(AnyChar)>>)

\* /\b(?:take|принимать|at night|утром|вечером|ночью)\b/gi
InstructionWordsRe ==
    Cat(<<WordB,
          Alt(<<Lit("take"), Ru("prinimatq"), Lit("at night"), Ru("utrom"), Ru("veCerom"),
                Ru("noCqU")>>),
          WordB>>)

\* /\s{2,}/g
SpacesRe == Cat(<<Space, Plus(Space)>>)

sanitizeName(header) ==
    LET WithoutContext(ok, candidate) ==
            IF ok /\ (\/ Test(STRENGTH_REGEX, candidate, TRUE)
                      \/ Test(WordNumberRe, candidate, FALSE))
            THEN candidate
            ELSE header
        AfterColon(colon) ==
            WithoutContext(colon.ok, Trim(Slice(header, colon.e, Len(header) + 1)))
        Cleaned(withoutContext) ==
            Trim(ReplaceAll(InstructionWordsRe,
                   ReplaceFirst(DashClauseRe,
                     ReplaceFirst(STRENGTH_REGEX, stripBullet(withoutContext),
                                  TRUE, << >>),
                     FALSE, << >>),
                   TRUE, << >>))
    IN  IF header = << >> THEN << >>
        ELSE Trim(ReplaceAll(SpacesRe, Cleaned(AfterColon(Exec(Colon, header, FALSE))),
                             FALSE, <<" ">>))

\* /[^\p{L}\d]+/gu and /^-+|-+$/g
NonAlnumRe == Plus(NoneOf(Letters \cup Digits))
EdgeDashesRe == Alt(<<Cat(<<Bol, Plus(Lit("-"))>>), Cat(<<Plus(Lit("-")), Eol>>)>>)

slug(value) ==
    ReplaceAll(EdgeDashesRe,
               ReplaceAll(NonAlnumRe, ToLowerCase(value), FALSE, <<"-">>),
               FALSE, << >>)

\* A 32-bit integer is kept as its two 16-bit halves <<hi, lo>>, for the
\* products of hashString pass the integers of the model checker.
Half == 65536

\* hash = ((hash << 5) - hash + code) | 0, that is 31 * hash + code modulo 2^32
HashStep(h, code) ==
    LET lo == 31 * h[2] + code
    IN  <<(31 * h[1] + lo \div Half) % Half, lo % Half>>

\* the loop of hashString: st is <<index, hash>>, index counted from 1
RECURSIVE HashFrom(_, _)
HashFrom(value, st) ==
    IF st[1] > Len(value) THEN st[2]
    ELSE HashFrom(value, <<st[1] + 1, HashStep(st[2], Ord(value[st[1]]))>>)

\* Math.abs of the signed 32-bit integer <<hi, lo>>, as halves (2^31 stays 2^31)
Abs32(h) ==
    IF h[1] < Half \div 2 THEN h
    ELSE IF h[2] = 0 THEN <<Half - h[1], 0>>
    ELSE <<Half - 1 - h[1], Half - h[2]>>

Base36 == Chars("0123456789abcdefghijklmnopqrstuvwxyz")

\* Number.prototype.toString(36) of the non-negative <<hi, lo>>
RECURSIVE ToString36(_)
ToString36(h) ==
    LET r1 == h[1] % 36
        low == r1 * Half + h[2]
        q == <<h[1] \div 36, low \div 36>>
        d == Base36[(low % 36) + 1]
    IN  IF q = <<0, 0>> THEN <<d>> ELSE Append(ToString36(q), d)

hashString(value) == ToString36(Abs32(HashFrom(value, <<1, <<0, 0>>>>)))

makePlanId(name, ordinal) ==
    LET Base(s) == IF s # << >> THEN s ELSE Chars("med-") \o NatToChars(ordinal + 1)
        Id(base) ==
            Chars("plan-") \o base \o <<"-">>
            \o hashString(base \o <<"-">> \o NatToChars(ordinal))
    IN  Id(Base(slug(name)))

\* lines.map(stripBullet).filter(Boolean)
NormalizedLines(lines) ==
    SelectSeq([i \in 1..Len(lines) |-> stripBullet(lines[i])], LAMBDA l : l # << >>)

\* normalizedLines.join(' ')
PlainText(lines) == Join(NormalizedLines(lines), <<" ">>)

\* the plan that buildPlanFromBlock makes of the lines it has normalized
PlanOfLines(normalizedLines, ordinal) ==
    LET Name(header) ==
            IF header # << >> THEN header
            ELSE Chars("Medication ") \o NatToChars(ordinal + 1)
        Plan(name, plainText) ==
            [name |-> name,
             id |-> makePlanId(name, ordinal),
             strength |-> extractStrength(plainText),
             route |-> detectRoute(plainText),
             instructions |-> <<buildInstruction(plainText)>>]
    IN  IF normalizedLines = << >> THEN None
        ELSE Some(Plan(Name(sanitizeName(normalizedLines[1])),
                       Join(normalizedLines, <<" ">>)))

\* buildPlanFromBlock without its filter(Boolean): an empty line stays
buildPlanFromBlockUnfiltered(lines, ordinal) ==
    PlanOfLines([i \in 1..Len(lines) |-> stripBullet(lines[i])], ordinal)

\* the plan of a block; None is null
buildPlanFromBlock(lines, ordinal) == PlanOfLines(NormalizedLines(lines), ordinal)

RECURSIVE BuildPlans(_, _)
BuildPlans(bs, index) ==
    IF index > Len(bs) THEN << >>
    ELSE buildPlanFromBlock(bs[index], index - 1) \o BuildPlans(bs, index + 1)

parsePrescriptionText(rawText) ==
    IF rawText = << >> \/ Trim(rawText) = << >> THEN << >>
    ELSE BuildPlans(collectBlocks(rawText), 1)

SAMPLE_TEXT ==
    Chars("Amoxicillin 500 mg\n1 tab 3 times a day 7 days after meals\nAt night: Melatonin 3 mg ")
    \o <<EmDash>> \o Chars(" 1 tab")

----------------------------------------------------------------------------
(* The schedule expander: src/src/lib/schedule.ts *)

Frequencies == {"QD", "BID", "TID", "QID", "QHS", "QAM", "QPM", "QOD", "PRN"}

DEFAULT_WINDOW_MINS == 30

DEFAULT_TIMES ==
    [f \in Frequencies |->
        CASE f = "QD" -> <<Chars("09:00")>>
          [] f = "BID" -> <<Chars("08:00"), Chars("20:00")>>
          [] f = "TID" -> <<Chars("08:00"), Chars("14:00"), Chars("20:00")>>
          [] f = "QID" -> <<Chars("06:00"), Chars("12:00"), Chars("18:00"), Chars("22:00")>>
          [] f = "QHS" -> <<Chars("22:30")>>
          [] f = "QAM" -> <<Chars("08:00")>>
          [] f = "QPM" -> <<Chars("20:00")>>
          [] f = "QOD" -> <<Chars("09:00")>>
          [] f = "PRN" -> << >>]

\* makeDoseLabel that renders the unit as it is stored
makeDoseLabelAsStored(p, instructionIndex) ==
    LET instruction == p.instructions[instructionIndex]
    IN  NumToChars(instruction.dose.amount) \o <<" ">> \o Chars(instruction.dose.unit)

makeDoseLabel(p, instructionIndex) ==
    LET instruction == p.instructions[instructionIndex]
        amount == instruction.dose.amount
        unit == instruction.dose.unit
        formattedUnit ==
            CASE unit = "tab" -> IF amount = Num(1) THEN "tab" ELSE "tabs"
              [] unit = "caps" -> IF amount = Num(1) THEN "cap" ELSE "caps"
              [] unit \in {"ml", "mg"} -> unit
              [] unit = "drops" -> IF amount = Num(1) THEN "drop" ELSE "drops"
              [] unit = "sprays" -> IF amount = Num(1) THEN "spray" ELSE "sprays"
              [] OTHER -> unit
    IN  NumToChars(amount) \o <<" ">> \o Chars(formattedUnit)

\* timesForInstruction whose table has no entry for PRN, so that the QD
\* default is taken for it
timesForInstructionNoPrn(frequency, times) ==
    IF times # None /\ times[1] # << >> THEN SortStrings(Dedupe(times[1]))
    ELSE IF frequency \in DOMAIN DEFAULT_TIMES \ {"PRN"} THEN DEFAULT_TIMES[frequency]
    ELSE DEFAULT_TIMES["QD"]

\* timesForInstruction without the sort of the explicit times
timesForInstructionUnsorted(frequency, times) ==
    IF times # None /\ times[1] # << >> THEN Dedupe(times[1])
    ELSE IF frequency \in DOMAIN DEFAULT_TIMES THEN DEFAULT_TIMES[frequency]
    ELSE DEFAULT_TIMES["QD"]

timesForInstruction(frequency, times) ==
    IF times # None /\ times[1] # << >> THEN SortStrings(Dedupe(times[1]))
    ELSE IF frequency \in DOMAIN DEFAULT_TIMES THEN DEFAULT_TIMES[frequency]
    ELSE DEFAULT_TIMES["QD"]

\* shouldIncludeDay that takes the odd offsets of QOD
shouldIncludeDayOdd(frequency, dayOffset) ==
    IF frequency = "QOD" THEN dayOffset % 2 = 1 ELSE TRUE

shouldIncludeDay(frequency, dayOffset) ==
    IF frequency = "QOD" THEN dayOffset % 2 = 0 ELSE TRUE

\* createEventId that numbers its ids on from the events made before
createEventIdNumbered(planId, instructionIndex, dayOffset, time) ==
    planId \o <<"-">> \o NatToChars(instructionIndex) \o <<"-">>
    \o NatToChars(dayOffset) \o <<"-">> \o NatToChars(Len(events))

createEventId(planId, instructionIndex, dayOffset, time) ==
    LET sanitized == ReplaceFirst(Colon, time, FALSE, << >>)
    IN  planId \o <<"-">> \o NatToChars(instructionIndex) \o <<"-">>
        \o NatToChars(dayOffset) \o <<"-">> \o sanitized

MinutesPerDay == 1440

\* An instant is its minutes since the epoch's local midnight (no change of
\* the clock happens within the horizon).
StartOfDay(instant) == instant - (instant % MinutesPerDay)

\* startOfDay.add(dayOffset, 'day').hour(hour).minute(minute).second(0),
\* where hour and minute are parseInt of the halves of time.split(":"):
\* None is the invalid date that a NaN gives, and an hour of 24 or more or a
\* minute of 60 or more runs into the next hour or day as Date.setHours does.
Occurrence(startOfDay, dayOffset, time) ==
    LET colon == Exec(Colon, time, FALSE)
        hourString == IF colon.ok THEN Slice(time, 1, colon.s) ELSE time
        rest == IF colon.ok THEN Slice(time, colon.e, Len(time) + 1) ELSE << >>
        colon2 == Exec(Colon, rest, FALSE)
        minuteString == IF colon2.ok THEN Slice(rest, 1, colon2.s) ELSE rest
        hour == ParseInt(hourString)
        minute == IF colon.ok THEN ParseInt(minuteString) ELSE None
    IN  IF hour = None \/ minute = None THEN None
        ELSE Some(startOfDay + dayOffset * MinutesPerDay + hour[1] * 60 + minute[1])

\* EventsOfDay that sets windowMins for every frequency
EventsOfDayWindowed(p, instructionIndex, startOfDay, dayOffset, times) ==
    [k \in 1..Len(times) |->
        [id |-> createEventId(p.id, instructionIndex - 1, dayOffset, times[k]),
         medPlanId |-> p.id,
         at |-> Occurrence(startOfDay, dayOffset, times[k]),
         windowMins |-> Some(DEFAULT_WINDOW_MINS),
         dose |-> makeDoseLabel(p, instructionIndex),
         status |-> "scheduled"]]

\* the events times.forEach pushes for one day
EventsOfDay(p, instructionIndex, startOfDay, dayOffset, times) ==
    [k \in 1..Len(times) |->
        [id |-> createEventId(p.id, instructionIndex - 1, dayOffset, times[k]),
         medPlanId |-> p.id,
         at |-> Occurrence(startOfDay, dayOffset, times[k]),
         windowMins |-> IF p.instructions[instructionIndex].frequency = "PRN"
                        THEN None ELSE Some(DEFAULT_WINDOW_MINS),
         dose |-> makeDoseLabel(p, instructionIndex),
         status |-> "scheduled"]]

\* the for loop over dayOffset
RECURSIVE EventsFromDay(_, _, _, _, _, _, _)
EventsFromDay(p, instructionIndex, startOfDay, horizon, durationLimit, times, dayOffset) ==
    IF ~(dayOffset < horizon) THEN << >>
    ELSE IF dayOffset >= durationLimit THEN << >>
    ELSE (IF ~shouldIncludeDay(p.instructions[instructionIndex].frequency, dayOffset)
          THEN << >>
          ELSE EventsOfDay(p, instructionIndex, startOfDay, dayOffset, times))
         \o EventsFromDay(p, instructionIndex, startOfDay, horizon, durationLimit, times,
                          dayOffset + 1)

\* the body of plan.instructions.forEach without the break at durationLimit
EventsOfInstructionUncapped(p, instructionIndex, startOfDay, horizon) ==
    LET instruction == p.instructions[instructionIndex]
        times == timesForInstruction(instruction.frequency, instruction.timesOfDay)
    IN  IF instruction.frequency = "PRN" /\ Len(times) = 0 THEN << >>
        ELSE EventsFromDay(p, instructionIndex, startOfDay, horizon, horizon, times, 0)

\* the body of plan.instructions.forEach (instructionIndex counts from 1 here)
EventsOfInstruction(p, instructionIndex, startOfDay, horizon) ==
    LET instruction == p.instructions[instructionIndex]
        times == timesForInstruction(instruction.frequency, instruction.timesOfDay)
        durationLimit == IF instruction.durationDays # None
                         THEN instruction.durationDays[1] ELSE horizon
    IN  IF instruction.frequency = "PRN" /\ Len(times) = 0 THEN << >>
        ELSE EventsFromDay(p, instructionIndex, startOfDay, horizon, durationLimit,
                           times, 0)

\* plan.instructions.forEach that puts the events of a later instruction first
RECURSIVE EventsFromInstructionReversed(_, _, _, _)
EventsFromInstructionReversed(p, instructionIndex, startOfDay, horizon) ==
    IF instructionIndex > Len(p.instructions) THEN << >>
    ELSE EventsFromInstructionReversed(p, instructionIndex + 1, startOfDay, horizon)
         \o EventsOfInstruction(p, instructionIndex, startOfDay, horizon)

RECURSIVE EventsFromInstruction(_, _, _, _)
EventsFromInstruction(p, instructionIndex, startOfDay, horizon) ==
    IF instructionIndex > Len(p.instructions) THEN << >>
    ELSE EventsOfInstruction(p, instructionIndex, startOfDay, horizon)
         \o EventsFromInstruction(p, instructionIndex + 1, startOfDay, horizon)

\* expandPlan's events; an event whose "at" is None is one at which
\* occurrence.toISOString() throws a RangeError, so that none is returned
expandPlan(p, start, horizon) ==
    EventsFromInstruction(p, 1, StartOfDay(start), horizon)

Throws(evs) == \E k \in 1..Len(evs) : evs[k].at = None

----------------------------------------------------------------------------
(* Inputs of the parser *)

Headers ==
    { Chars("Amoxicillin 500 mg"),
      Chars("Ibuprofen"),
      CyrCap("ibuprofen") \o Chars(" 200 ") \o Cyr("mg"),       \* Ибупрофен 200 мг
      Chars("2) Aspirin 100mg"),
      Chars("- take:") }

DoseFragments ==
    { Chars("1 tab"), Chars("2 caps"), Chars("0 tab"), Chars("0 mg"), Chars("0,5 ml"),
      Cyr("2 tabletki"),                                        \* 2 таблетки
      Cyr("5 tabletok") }                                       \* 5 таблеток

FrequencyFragments ==
    { Chars("3 times a day"), Chars("TID"), Chars("tid"), Chars("bid"),
      Chars("at night"), Chars("every other day"), Chars("twice"),
      Cyr("3 raza v denq"),                                     \* 3 раза в день
      Cyr("2 raza v denq"),                                     \* 2 раза в день
      Cyr("tri raza") }                                         \* три раза

PrnFragments ==
    { Chars("as needed"), Chars("AS NEEDED"),
      Cyr("po trebovaniU"),                                     \* по требованию
      Cyr("po neobxodimosti") }                                 \* по необходимости

OtherFragments ==
    { Chars("7 days"), Chars("after meals"), Chars("08:00"), Chars("20.30 8:00"),
      Cyr("5 dnej") }                                           \* 5 дней

\* a direction: one fragment, or two fragments of two kinds; an as-needed
\* phrase and a frequency phrase come in either order
FragmentPairs ==
    (PrnFragments \X FrequencyFragments) \cup (FrequencyFragments \X PrnFragments)
    \cup (DoseFragments \X FrequencyFragments) \cup (DoseFragments \X PrnFragments)
    \cup (DoseFragments \X OtherFragments) \cup (FrequencyFragments \X OtherFragments)
    \cup (PrnFragments \X OtherFragments)

SingleDirections ==
    DoseFragments \cup FrequencyFragments \cup PrnFragments \cup OtherFragments

PairDirections == {xy[1] \o <<" ">> \o xy[2] : xy \in FragmentPairs}

PairHeaders ==
    { Chars("Ibuprofen"),
      CyrCap("ibuprofen") \o Chars(" 200 ") \o Cyr("mg") }       \* Ибупрофен 200 мг

Separators == {<<" ">>, <<"\n">>}

SpecialTexts ==
    { << >>, Chars(" "), Chars(" \n\t \r\n"), Chars("- \n\n2."), <<Bullet>>, Chars("-\n3)"),
      SAMPLE_TEXT,
      Chars("Aspirin 100 mg\n\n\nAspirin 100 mg as needed"),
      Chars("take as needed, up to 3 times a day"),
      Chars("Zinc 1 tab\n-\n\n2)\n\nIron 2 caps bid"),
      Chars("Zinc 1 tab\r\n\r\n") \o Cyr("po trebovaniU 2 raza v denq"),
      Chars("Acczhqxr 5 mg\n\nZinc 1 tab\n\nAcczhqxr 5 mg"),
      Chars("Zinc 1 tab 8:00 21:15 08.00 7.30"),
      Chars("Zinc 1 tab at 25:00"),
      Chars("Zinc 99.99\n\nIron 2.50 mg 123:45") }

Texts ==
    SpecialTexts
    \cup {h \o sep \o d : h \in Headers, sep \in Separators, d \in SingleDirections}
    \cup {h \o sep \o d : h \in PairHeaders, sep \in Separators, d \in PairDirections}

----------------------------------------------------------------------------
(* parsePrescriptionText applied to each input *)

\* the store before anything is scheduled, and no notification pending
NoApp ==
    /\ scheduled = {}
    /\ storeEvents = << >>
    /\ notificationRefs = {}
    /\ medPlans = << >>
    /\ planIndex = 0
    /\ issued = 0
    /\ taps = 0
    /\ handlers = {}
    /\ alert = None

InitReview ==
    /\ reviewText = << >>
    /\ plans = << >>
    /\ errorMessage = None
    /\ draft = [rawText |-> << >>, parsed |-> << >>]
    /\ edits = 0

NoCall ==
    /\ pc = "none"
    /\ raw = << >>
    /\ parsed = << >>
    /\ plan = << >>
    /\ startAt = 0
    /\ horizonDays = 0
    /\ events = << >>

InitParse ==
    /\ pc = "call"
    /\ raw \in Texts
    /\ parsed = << >>
    /\ plan = << >>
    /\ startAt = 0
    /\ horizonDays = 0
    /\ events = << >>
    /\ InitReview
    /\ NoApp

\* parsePrescriptionText has no throw of its own and calls nothing that
\* throws on a string: the call always returns
ParsePrescriptionText ==
    /\ pc = "call"
    /\ parsed' = parsePrescriptionText(raw)
    /\ pc' = "done"
    /\ UNCHANGED <<raw, plan, startAt, horizonDays, events, reviewVars, appVars>>

NextParse == ParsePrescriptionText

SpecParse == InitParse /\ [][NextParse]_vars


----------------------------------------------------------------------------
(* expandPlan applied to each plan, start and horizon *)

MaxHorizon == 14

OneTablet == [amount |-> Num(1), unit |-> "tab"]

\* absent, empty, unsorted with a repeat, a time without its colon, by itself
\* and beside the time it abbreviates, a time whose colon is misplaced, and an
\* hour of one digit
TimesChoices ==
    { None, Some(<< >>), Some(<<Chars("20:00"), Chars("08:00"), Chars("20:00")>>),
      Some(<<Chars("0800")>>),
      Some(<<Chars("08:00"), Chars("0800")>>),
      Some(<<Chars("08:00"), Chars("0:800")>>),
      Some(<<Chars("8:00"), Chars("14:00")>>) }

\* durationDays is absent or positive: parseDuration turns 0 into undefined
\* and the review screen lets only positive durations through
DurationChoices == {None, Some(1), Some(3), Some(7)}

MakeInstruction(dose, frequency, times, duration) ==
    [dose |-> dose,
     frequency |-> frequency,
     timesOfDay |-> times,
     when |-> None,
     durationDays |-> duration,
     prn |-> IF frequency = "PRN" THEN Some(TRUE) ELSE None]

Instructions ==
    {MakeInstruction(OneTablet, f, t, n) :
        f \in Frequencies, t \in TimesChoices, n \in DurationChoices}
    \cup {MakeInstruction([amount |-> Num(2), unit |-> "caps"], "BID", None, None)}
    \cup {MakeInstruction([amount |-> a, unit |-> u], "QD", None, Some(1)) :
             a \in {Num(1), Num(2), Normalized(5, 1)},
             u \in {"mg", "ml", "tab", "caps", "drops", "sprays"}}

\* the instructions of the plans of two
PairedInstructions ==
    {MakeInstruction(OneTablet, f, t, n) :
        f \in {"PRN", "QOD", "TID"}, t \in {None, Some(<< >>)}, n \in {None, Some(3)}}
    \ {MakeInstruction(OneTablet, f, Some(<< >>), Some(3)) : f \in {"QOD", "TID"}}

MakePlan(instructions) ==
    [id |-> Chars("plan-a"),
     name |-> Chars("A"),
     strength |-> None,
     route |-> None,
     instructions |-> instructions]

SamplePlans == Range(parsePrescriptionText(SAMPLE_TEXT))

\* the plan the parser makes of a text with an hour past 23
LateHourPlans == Range(parsePrescriptionText(Chars("Zinc 1 tab at 25:00")))

ExpandPlans ==
    SamplePlans
    \cup LateHourPlans
    \cup {MakePlan(<<i>>) : i \in Instructions}
    \cup {MakePlan(<<i, j>>) : i \in PairedInstructions, j \in PairedInstructions}

\* midnight of the first day and 23:59 of the fifth
StartInstants == {0, 4 * MinutesPerDay + 1439}

InitExpand ==
    /\ pc = "call"
    /\ raw = << >>
    /\ parsed = << >>
    /\ plan \in ExpandPlans
    /\ startAt \in StartInstants
    /\ horizonDays \in 0..MaxHorizon
    /\ events = << >>
    /\ InitReview
    /\ NoApp

\* expandPlan returns its events
ExpandPlan ==
    /\ pc = "call"
    /\ ~Throws(expandPlan(plan, startAt, horizonDays))
    /\ events' = expandPlan(plan, startAt, horizonDays)
    /\ pc' = "done"
    /\ UNCHANGED <<raw, parsed, plan, startAt, horizonDays, reviewVars, appVars>>

\* occurrence.toISOString() throws a RangeError on an invalid date
ExpandPlanThrows ==
    /\ pc = "call"
    /\ Throws(expandPlan(plan, startAt, horizonDays))
    /\ pc' = "threw"
    /\ UNCHANGED <<raw, parsed, plan, startAt, horizonDays, events, reviewVars, appVars>>

\* a second call of expandPlan with the plan, start and horizon of the first
ExpandPlanAgain ==
    /\ pc = "done"
    /\ ~Throws(expandPlan(plan, startAt, horizonDays))
    /\ events' = expandPlan(plan, startAt, horizonDays)
    /\ pc' = "again"
    /\ UNCHANGED <<raw, parsed, plan, startAt, horizonDays, reviewVars, appVars>>

NextExpand == ExpandPlan \/ ExpandPlanThrows \/ ExpandPlanAgain

SpecExpand == InitExpand /\ [][NextExpand]_vars

----------------------------------------------------------------------------
(* The review screen: src/src/app/review.tsx *)

MaxEdits == 3

frequencyOptions == <<"QD", "BID", "TID", "QID", "QAM", "QPM", "QHS", "QOD", "PRN">>

timingOptions == <<"MORN", "NOON", "EVE", "NIGHT", "BEFORE_MEAL", "AFTER_MEAL">>

DoseUnits == {"mg", "ml", "tab", "caps", "drops", "sprays"}

Routes == {"po", "im", "iv", "inh", "sl", "topical", "nasal", "oph"}

\* dosageInstructionSchema accepts the instruction
ValidInstruction(instruction) ==
    /\ ~instruction.dose.amount.nan
    /\ instruction.dose.amount.m > 0
    /\ instruction.dose.unit \in DoseUnits
    /\ instruction.frequency \in Range(frequencyOptions)
    /\ instruction.when # None => Range(instruction.when[1]) \subseteq Range(timingOptions)
    /\ instruction.durationDays # None => instruction.durationDays[1] > 0

\* medicationPlanSchema accepts the plan
ValidPlan(p) ==
    /\ p.id # << >>
    /\ p.name # << >>
    /\ p.route # None => p.route[1] \in Routes
    /\ Len(p.instructions) >= 1
    /\ \A i \in 1..Len(p.instructions) : ValidInstruction(p.instructions[i])

\* what the user types: nothing, blanks, and prescriptions
ReviewTexts ==
    { << >>, Chars("  "),
      Chars("Ibuprofen 200 mg as needed"),
      Chars("Zinc 0 tab bid\n\nIron 2 caps 3 times a day 08:00") }

AmountTexts == {Chars("2"), Chars("0"), Chars("")}
UnitTexts == {"mg", "pill"}
DurationTexts == {Chars("5"), Chars("0"), Chars("")}
TimesTexts == {Chars(""), Chars("20:00, 08:00,"), Chars("0800")}

\* setPlans and setDraftPlans of parseText, and the effect on draft.parsed
parseText(sourceText) ==
    LET Show(result) ==
            /\ plans' = result
            /\ draft' = [draft EXCEPT !.parsed = result]
            /\ errorMessage' = IF result # << >> THEN None
                               ELSE Some("Parser did not find any medications.")
    IN  Show(parsePrescriptionText(sourceText))

\* onChangeText of the prescription text: setText and setDraftText
ChangeText(value) ==
    /\ edits < MaxEdits
    /\ reviewText' = value
    /\ draft' = [draft EXCEPT !.rawText = value]
    /\ edits' = edits + 1
    /\ UNCHANGED <<plans, errorMessage, callVars, appVars>>

HandleParseEmpty ==
    /\ edits < MaxEdits
    /\ Trim(reviewText) = << >>
    /\ errorMessage' = Some("Paste or capture your prescription first.")
    /\ edits' = edits + 1
    /\ UNCHANGED <<reviewText, plans, draft, callVars, appVars>>

HandleParse ==
    /\ edits < MaxEdits
    /\ Trim(reviewText) # << >>
    /\ parseText(reviewText)
    /\ edits' = edits + 1
    /\ UNCHANGED <<reviewText, callVars, appVars>>

HandleSample ==
    /\ edits < MaxEdits
    /\ reviewText' = SAMPLE_TEXT
    /\ parseText(SAMPLE_TEXT)
    /\ edits' = edits + 1
    /\ UNCHANGED <<callVars, appVars>>

\* updatePlan: every plan with the id of updated becomes updated
updatePlan(current, updated) ==
    [j \in 1..Len(current) |-> IF current[j].id = updated.id THEN updated ELSE current[j]]

\* updateInstruction without its lines on prn: the changes only
updateInstructionSpreadOnly(p, field, value) ==
    [p EXCEPT !.instructions = << [p.instructions[1] EXCEPT ![field] = value] >>]

\* MedicationCard.updateInstruction with the one field of changes; the card's
\* instruction is plan.instructions[0], and the plan is left with it alone
updateInstruction(p, field, value) ==
    LET Next(nextInstruction) ==
            [nextInstruction EXCEPT
                !.prn = IF nextInstruction.frequency # "PRN" THEN None ELSE Some(TRUE)]
    IN  [p EXCEPT !.instructions = << Next([p.instructions[1] EXCEPT ![field] = value]) >>]

\* the plans after onChange of card k with one field of its instruction set
EditedPlans(k, field, value) ==
    updatePlan(plans, updateInstruction(plans[k], field, value))

\* Number.parseFloat(value) || instruction.dose.amount
ChangeDoseAmount(k, value) ==
    LET Amount(typed, old) ==
            [old EXCEPT !.amount = IF typed.nan \/ typed.m = 0 THEN old.amount ELSE typed]
    IN  /\ edits < MaxEdits
        /\ k \in 1..Len(plans)
        /\ plans' = EditedPlans(k, "dose",
                                Amount(ParseFloat(value), plans[k].instructions[1].dose))
        /\ edits' = edits + 1
        /\ UNCHANGED <<reviewText, errorMessage, draft, callVars, appVars>>

ChangeUnit(k, unit) ==
    /\ edits < MaxEdits
    /\ k \in 1..Len(plans)
    /\ plans' = EditedPlans(k, "dose", [plans[k].instructions[1].dose EXCEPT !.unit = unit])
    /\ edits' = edits + 1
    /\ UNCHANGED <<reviewText, errorMessage, draft, callVars, appVars>>

SelectFrequency(k, value) ==
    /\ edits < MaxEdits
    /\ k \in 1..Len(plans)
    /\ plans' = EditedPlans(k, "frequency", value)
    /\ edits' = edits + 1
    /\ UNCHANGED <<reviewText, errorMessage, draft, callVars, appVars>>

\* Number.isFinite(duration) ? duration : undefined
ChangeDuration(k, value) ==
    /\ edits < MaxEdits
    /\ k \in 1..Len(plans)
    /\ plans' = EditedPlans(k, "durationDays", ParseInt(value))
    /\ edits' = edits + 1
    /\ UNCHANGED <<reviewText, errorMessage, draft, callVars, appVars>>

ChangeTimes(k, value) ==
    LET Times(cleaned) == IF cleaned # << >> THEN Some(cleaned) ELSE None
        Cleaned(items) ==
            SelectSeq([i \in 1..Len(items) |-> Trim(items[i])], LAMBDA item : item # << >>)
    IN  /\ edits < MaxEdits
        /\ k \in 1..Len(plans)
        /\ plans' = EditedPlans(k, "timesOfDay", Times(Cleaned(Split(Comma, value))))
        /\ edits' = edits + 1
        /\ UNCHANGED <<reviewText, errorMessage, draft, callVars, appVars>>

toggleTiming(k, value) ==
    LET When(next) == IF next # << >> THEN Some(next) ELSE None
        Next(existing) ==
            IF value \in Range(existing)
            THEN SelectSeq(existing, LAMBDA item : item # value)
            ELSE Append(existing, value)
        Existing(when) == IF when # None THEN when[1] ELSE << >>
    IN  /\ edits < MaxEdits
        /\ k \in 1..Len(plans)
        /\ plans' = EditedPlans(k, "when",
                                When(Next(Existing(plans[k].instructions[1].when))))
        /\ edits' = edits + 1
        /\ UNCHANGED <<reviewText, errorMessage, draft, callVars, appVars>>

GoToScheduleEmpty ==
    /\ edits < MaxEdits
    /\ plans = << >>
    /\ errorMessage' = Some("Add at least one medication to continue.")
    /\ edits' = edits + 1
    /\ UNCHANGED <<reviewText, plans, draft, callVars, appVars>>

\* validatePlans fails: the message of the first issue is shown
GoToScheduleInvalid ==
    /\ edits < MaxEdits
    /\ plans # << >>
    /\ \E j \in 1..Len(plans) : ~ValidPlan(plans[j])
    /\ errorMessage' = Some("issue")
    /\ edits' = edits + 1
    /\ UNCHANGED <<reviewText, plans, draft, callVars, appVars>>

GoToSchedule ==
    /\ edits < MaxEdits
    /\ plans # << >>
    /\ \A j \in 1..Len(plans) : ValidPlan(plans[j])
    /\ draft' = [rawText |-> reviewText, parsed |-> plans]
    /\ edits' = edits + 1
    /\ UNCHANGED <<reviewText, plans, errorMessage, callVars, appVars>>

Init == NoCall /\ InitReview /\ NoApp

Next ==
    \/ \E value \in ReviewTexts : ChangeText(value)
    \/ HandleParseEmpty
    \/ HandleParse
    \/ HandleSample
    \/ \E k \in 1..2 :
        \/ \E value \in AmountTexts : ChangeDoseAmount(k, value)
        \/ \E unit \in UnitTexts : ChangeUnit(k, unit)
        \/ \E value \in Range(frequencyOptions) : SelectFrequency(k, value)
        \/ \E value \in DurationTexts : ChangeDuration(k, value)
        \/ \E value \in TimesTexts : ChangeTimes(k, value)
        \/ \E value \in Range(timingOptions) : toggleTiming(k, value)
    \/ GoToScheduleEmpty
    \/ GoToScheduleInvalid
    \/ GoToSchedule

Spec == Init /\ [][Next]_vars

----------------------------------------------------------------------------
(* The notifier (src/src/lib/notify.ts), the store (src/src/store.ts), the *)
(* schedule screen (src/src/app/schedule.tsx) and the Today screen.        *)
(* A pending notification is [identifier, eventId, planId]: the identifier *)
(* the system gave it and the data of its content, planId None when the    *)
(* data has none.  The pending notifications are a set, for the order in   *)
(* which getAllScheduledNotificationsAsync lists them is the system's.     *)

MaxTaps == 4

horizonOptions == <<7, 14>>

\* String.prototype.startsWith
StartsWith(txt, prefix) ==
    Len(txt) >= Len(prefix) /\ SubSeq(txt, 1, Len(prefix)) = prefix

\* the notification scheduleLocal registers for an event, None when it
\* returns undefined; the permission is granted when handleSchedule calls it
scheduleLocal(event, identifier) ==
    IF event.at = None \/ event.status # "scheduled" THEN None
    ELSE Some([identifier |-> identifier,
               eventId |-> event.id,
               planId |-> Some(event.medPlanId)])

cancelForPlan(pending, planId) == {item \in pending : item.planId # Some(planId)}

\* cancelEvent cancels the notification that find meets first in the system's
\* list: what may be left pending
cancelEvent(pending, eventId) ==
    LET targets == {item \in pending : item.eventId = eventId}
    IN  IF targets = {} THEN {pending} ELSE {pending \ {target} : target \in targets}

snooze(pending, eventId, identifier) ==
    pending \cup {[identifier |-> identifier, eventId |-> eventId, planId |-> None]}

RECURSIVE InsertEvent(_, _)
InsertEvent(event, evs) ==
    IF evs = << >> THEN <<event>>
    ELSE IF event.at[1] < Head(evs).at[1] THEN <<event>> \o evs
    ELSE <<Head(evs)>> \o InsertEvent(event, Tail(evs))

\* the events left in the order given
sortEventsAsGiven(evs) == evs

\* [...events].sort by the instant of "at" (stable)
RECURSIVE sortEvents(_)
sortEvents(evs) ==
    IF evs = << >> THEN << >>
    ELSE InsertEvent(evs[Len(evs)], sortEvents(SubSeq(evs, 1, Len(evs) - 1)))

setEventsForPlan(evs, planId, eventsForPlan) ==
    sortEvents(SelectSeq(evs, LAMBDA event : event.medPlanId # planId) \o eventsForPlan)

updateEventStatus(evs, eventId, status) ==
    SelectSeq([k \in 1..Len(evs) |->
                  IF evs[k].id = eventId THEN [evs[k] EXCEPT !.status = status]
                  ELSE evs[k]],
              LAMBDA event : TRUE)

shiftEvent(evs, eventId, newIso) ==
    sortEvents([k \in 1..Len(evs) |->
                   IF evs[k].id = eventId THEN [evs[k] EXCEPT !.at = newIso] ELSE evs[k]])

\* notificationRefs is the set of its entries [eventId, notificationId]
setNotificationRef(refs, eventId, notificationId) ==
    {ref \in refs : ref.eventId # eventId}
    \cup (IF notificationId # None
          THEN {[eventId |-> eventId, notificationId |-> notificationId[1]]}
          ELSE {})

clearNotificationsForPlan(refs, planId) ==
    {ref \in refs : ~StartsWith(ref.eventId, planId \o <<"-">>)}

\* the values of the Map of upsertPlans: a plan keeps the place of the first
\* plan of its id and is the last plan of its id
upsertPlans(existing, ps) ==
    LET all == existing \o ps
        IsFirst(k) == \A j \in 1..(k - 1) : all[j].id # all[k].id
        Latest(k) == CHOOSE j \in k..Len(all) :
                         /\ all[j].id = all[k].id
                         /\ \A i \in (j + 1)..Len(all) : all[i].id # all[k].id
        firsts == SelectSeq([k \in 1..Len(all) |-> k], IsFirst)
    IN  [n \in 1..Len(firsts) |-> all[Latest(firsts[n])]]

\* the test of line 85 of schedule.tsx left out
NotifiableAlways(event) == TRUE

\* line 85 of schedule.tsx: an event without windowMins is not scheduled
Notifiable(event) == event.windowMins # None

\* the loop over eventsForPlan: st is <<pending, refs, issued>>
RECURSIVE ScheduleFrom(_, _, _)
ScheduleFrom(eventsForPlan, k, st) ==
    LET event == eventsForPlan[k]
        made == scheduleLocal(event, st[3] + 1)
    IN  IF k > Len(eventsForPlan) THEN st
        ELSE IF ~Notifiable(event) \/ made = None
             THEN ScheduleFrom(eventsForPlan, k + 1, st)
        ELSE ScheduleFrom(eventsForPlan, k + 1,
                          <<st[1] \cup {made[1]},
                            setNotificationRef(st[2], event.id, Some(made[1].identifier)),
                            st[3] + 1>>)

\* previewEvents[plan.id]: the effect of lines 42-48 for the horizon chosen
previewEvents(p) == expandPlan(p, startAt, horizonDays)

\* dayjs(event.at).isSame(dayjs(), 'day')
IsToday(event) == event.at # None /\ StartOfDay(event.at[1]) = StartOfDay(startAt)

todayEvents == SelectSeq(storeEvents, IsToday)

----------------------------------------------------------------------------
(* The plans that are scheduled *)

NamedPlan(letter, instructions) ==
    [id |-> Chars("plan-") \o <<letter>>,
     name |-> <<letter>>,
     strength |-> None,
     route |-> None,
     instructions |-> instructions]

\* once a day, as needed without times, and as needed at 08:00
DailyPlan == NamedPlan("a", <<MakeInstruction(OneTablet, "QD", None, None)>>)
PrnPlan == NamedPlan("b", <<MakeInstruction(OneTablet, "PRN", None, None)>>)
TimedPrnPlan ==
    NamedPlan("c", <<MakeInstruction(OneTablet, "PRN", Some(<<Chars("08:00")>>), Some(3))>>)

Drafts ==
    { <<DailyPlan>>, <<PrnPlan>>, <<TimedPrnPlan>>, <<DailyPlan, PrnPlan>>,
      <<TimedPrnPlan, DailyPlan>> }

\* 08:30 and 23:50 of the first day
Nows == {8 * 60 + 30, 23 * 60 + 50}

InitApp ==
    /\ pc = "idle"
    /\ raw = << >>
    /\ parsed = << >>
    /\ plan = << >>
    /\ startAt \in Nows
    /\ horizonDays = 7
    /\ events = << >>
    /\ reviewText = << >>
    /\ plans = << >>
    /\ errorMessage = None
    /\ draft \in {[rawText |-> << >>, parsed |-> d] : d \in Drafts}
    /\ edits = 0
    /\ NoApp

\* a press on a horizon option: setHorizon, and the effect that previews
SelectHorizon(option) ==
    /\ pc = "idle"
    /\ taps < MaxTaps
    /\ option # horizonDays
    /\ horizonDays' = option
    /\ taps' = taps + 1
    /\ UNCHANGED <<pc, raw, parsed, plan, startAt, events, reviewVars>>
    /\ UNCHANGED <<scheduled, storeEvents, notificationRefs, medPlans, planIndex, issued,
                   handlers, alert>>

\* the flag of the schedule screen that handleSchedule sets and resets
isScheduling == pc \in {"ensurePermissions", "cancelForPlan", "scheduleEvents"}

\* the permission taken as granted whatever the system answers
ensurePermissionsAssumed(current, requested) == TRUE

\* ensurePermissions: current and requested are the answers of
\* getPermissionsAsync and of requestPermissionsAsync
ensurePermissions(current, requested) == IF current THEN TRUE ELSE requested

\* handleSchedule up to await ensurePermissions
HandleSchedule ==
    /\ pc = "idle"
    /\ taps < MaxTaps
    /\ draft.parsed # << >>
    /\ pc' = "ensurePermissions"
    /\ taps' = taps + 1
    /\ UNCHANGED <<raw, parsed, plan, startAt, horizonDays, events, reviewVars>>
    /\ UNCHANGED <<scheduled, storeEvents, notificationRefs, medPlans, planIndex, issued,
                   handlers, alert>>

\* ensurePermissions answers handleSchedule, which alerts and returns when
\* the permission is not granted
EnsurePermissions(current, requested) ==
    /\ pc = "ensurePermissions"
    /\ IF ensurePermissions(current, requested)
       THEN /\ pc' = "cancelForPlan"
            /\ planIndex' = 1
            /\ UNCHANGED alert
       ELSE /\ pc' = "idle"
            /\ alert' = Some(Chars("Permission needed"))
            /\ UNCHANGED planIndex
    /\ UNCHANGED <<raw, parsed, plan, startAt, horizonDays, events, reviewVars>>
    /\ UNCHANGED <<scheduled, storeEvents, notificationRefs, medPlans, issued, taps,
                   handlers>>

\* cancelForPlan rejects as getAllScheduledNotificationsAsync does:
\* handleSchedule alerts and ends
CancelForPlanRejects ==
    /\ pc = "cancelForPlan"
    /\ pc' = "idle"
    /\ planIndex' = 0
    /\ alert' = Some(Chars("Scheduling failed"))
    /\ UNCHANGED <<raw, parsed, plan, startAt, horizonDays, events, reviewVars>>
    /\ UNCHANGED <<scheduled, storeEvents, notificationRefs, medPlans, issued, taps,
                   handlers>>

\* await cancelForPlan(plan.id) of the loop
CancelForPlan ==
    /\ pc = "cancelForPlan"
    /\ scheduled' = cancelForPlan(scheduled, draft.parsed[planIndex].id)
    /\ pc' = "scheduleEvents"
    /\ UNCHANGED <<raw, parsed, plan, startAt, horizonDays, events, reviewVars>>
    /\ UNCHANGED <<storeEvents, notificationRefs, medPlans, planIndex, issued, taps,
                   handlers, alert>>

\* the rest of the loop's body for the plan, and after the last plan
\* upsertPlans and the end of handleSchedule
ScheduleEvents ==
    LET p == draft.parsed[planIndex]
        eventsForPlan == previewEvents(p)
        Store(st) ==
            /\ scheduled' = st[1]
            /\ notificationRefs' = st[2]
            /\ issued' = st[3]
    IN  /\ pc = "scheduleEvents"
        /\ Store(ScheduleFrom(eventsForPlan, 1,
                              <<scheduled,
                                clearNotificationsForPlan(notificationRefs, p.id),
                                issued>>))
        /\ storeEvents' = setEventsForPlan(storeEvents, p.id, eventsForPlan)
        /\ IF planIndex < Len(draft.parsed)
           THEN /\ planIndex' = planIndex + 1
                /\ pc' = "cancelForPlan"
                /\ UNCHANGED medPlans
           ELSE /\ planIndex' = 0
                /\ pc' = "idle"
                /\ medPlans' = upsertPlans(medPlans, draft.parsed)
        /\ alert' = IF planIndex < Len(draft.parsed) THEN alert
                     ELSE Some(Chars("Scheduled"))
        /\ UNCHANGED <<raw, parsed, plan, startAt, horizonDays, events, reviewVars, taps,
                       handlers>>

\* the loop's body for the plan up to the j-th event, whose scheduleLocal
\* rejects: handleSchedule alerts and ends
ScheduleLocalRejects(j) ==
    LET p == draft.parsed[planIndex]
        Store(st) ==
            /\ scheduled' = st[1]
            /\ notificationRefs' = st[2]
            /\ issued' = st[3]
    IN  \E eventsForPlan \in {previewEvents(p)} :
        /\ pc = "scheduleEvents"
        /\ j \in DOMAIN eventsForPlan
        /\ Notifiable(eventsForPlan[j])
        /\ scheduleLocal(eventsForPlan[j], issued) # None
        /\ \E before \in {SubSeq(eventsForPlan, 1, j - 1)} :
               Store(ScheduleFrom(before, 1,
                                  <<scheduled,
                                    clearNotificationsForPlan(notificationRefs, p.id),
                                    issued>>))
        /\ storeEvents' = setEventsForPlan(storeEvents, p.id, eventsForPlan)
        /\ pc' = "idle"
        /\ planIndex' = 0
        /\ alert' = Some(Chars("Scheduling failed"))
        /\ UNCHANGED <<raw, parsed, plan, startAt, horizonDays, events, reviewVars, taps,
                       handlers, medPlans>>

\* handleTaken and handleSkip of the k-th event of the store, shown today
HandleDone(k, status) ==
    /\ pc = "idle"
    /\ taps < MaxTaps
    /\ k \in 1..Len(storeEvents)
    /\ IsToday(storeEvents[k])
    /\ storeEvents[k].status # status
    /\ storeEvents' = updateEventStatus(storeEvents, storeEvents[k].id, status)
    /\ scheduled' \in cancelEvent(scheduled, storeEvents[k].id)
    /\ notificationRefs' = setNotificationRef(notificationRefs, storeEvents[k].id, None)
    /\ taps' = taps + 1
    /\ UNCHANGED <<callVars, reviewVars, medPlans, planIndex, issued, handlers, alert>>

HandleTaken(k) == HandleDone(k, "taken")

HandleSkip(k) == HandleDone(k, "missed")

\* handleSnooze of the k-th event of the store, shown today
HandleSnooze(k, granted) ==
    /\ pc = "idle"
    /\ taps < MaxTaps
    /\ k \in 1..Len(storeEvents)
    /\ IsToday(storeEvents[k])
    /\ storeEvents' =
           shiftEvent(updateEventStatus(storeEvents, storeEvents[k].id, "snoozed"),
                      storeEvents[k].id, Some(startAt + 15))
    /\ \E pending \in cancelEvent(scheduled, storeEvents[k].id) :
           IF granted
           THEN /\ scheduled' = snooze(pending, storeEvents[k].id, issued + 1)
                /\ notificationRefs' =
                       setNotificationRef(notificationRefs, storeEvents[k].id,
                                          Some(issued + 1))
                /\ issued' = issued + 1
           ELSE /\ scheduled' = pending
                /\ UNCHANGED <<notificationRefs, issued>>
    /\ taps' = taps + 1
    /\ UNCHANGED <<callVars, reviewVars, medPlans, planIndex, handlers, alert>>

\* the events whose scheduleLocal may reject: the first and the last of the
\* plan that handleSchedule would schedule
RejectedAt ==
    IF pc # "scheduleEvents" THEN {}
    ELSE LET Notifiables(eventsForPlan) ==
                 {j \in DOMAIN eventsForPlan : Notifiable(eventsForPlan[j])}
         IN  UNION {{j \in notifiable : \/ \A i \in notifiable : i >= j
                                       \/ \A i \in notifiable : i <= j} :
                    notifiable \in {Notifiables(previewEvents(draft.parsed[planIndex]))}}

NextApp ==
    \/ \E option \in Range(horizonOptions) : SelectHorizon(option)
    \/ HandleSchedule
    \/ \E current, requested \in BOOLEAN : EnsurePermissions(current, requested)
    \/ CancelForPlan
    \/ CancelForPlanRejects
    \/ ScheduleEvents
    \/ \E j \in RejectedAt : ScheduleLocalRejects(j)
    \/ \E k \in DOMAIN storeEvents : HandleTaken(k)
    \/ \E k \in DOMAIN storeEvents : HandleSkip(k)
    \/ \E k \in DOMAIN storeEvents, granted \in BOOLEAN : HandleSnooze(k, granted)

SpecApp == InitApp /\ [][NextApp]_vars

----------------------------------------------------------------------------
(* The store (src/src/store.ts) by itself: its operations called one after  *)
(* another, in any order, with the events expandPlan makes of a few plans.  *)

MaxCalls == 3

StoreHorizon == 2

removePlan(state, planId) ==
    [medPlans |-> SelectSeq(state.medPlans, LAMBDA p : p.id # planId),
     events |-> SelectSeq(state.events, LAMBDA event : event.medPlanId # planId),
     notificationRefs |->
         {ref \in state.notificationRefs :
             ~StartsWith(ref.eventId, planId \o <<"-">>)}]

overwriteEvents(evs) == sortEvents(evs)

Reversed(seq) == [k \in 1..Len(seq) |-> seq[Len(seq) + 1 - k]]

\* two plans as parsePrescriptionText makes them: the name of the second is
\* the name of the first followed by the hash of the first one's id
PrefixPlans == parsePrescriptionText(Chars("Zinc\n\nZinc blvghl"))

\* a plan whose two hand-edited times are one clock time
TwiceEightPlan ==
    NamedPlan("d", <<MakeInstruction(OneTablet, "QD",
                                     Some(<<Chars("08:00"), Chars("0:800")>>), Some(1))>>)

StorePlans == {DailyPlan, TimedPrnPlan, TwiceEightPlan} \cup Range(PrefixPlans)

StoreEventsOf(p) == expandPlan(p, startAt, horizonDays)

InitStore ==
    /\ pc = "store"
    /\ raw = << >>
    /\ parsed = << >>
    /\ plan = << >>
    /\ startAt \in Nows
    /\ horizonDays = StoreHorizon
    /\ events = << >>
    /\ reviewText = << >>
    /\ plans = << >>
    /\ errorMessage = None
    /\ draft = [rawText |-> << >>, parsed |-> << >>]
    /\ edits = 0
    /\ NoApp

StoreFrame == UNCHANGED <<callVars, reviewVars, scheduled, planIndex, issued, handlers, alert>>

Called ==
    /\ pc = "store"
    /\ taps < MaxCalls
    /\ taps' = taps + 1
    /\ StoreFrame

UpsertPlans(ps) ==
    /\ Called
    /\ medPlans' = upsertPlans(medPlans, ps)
    /\ UNCHANGED <<storeEvents, notificationRefs>>

RemovePlan(planId) ==
    LET next == removePlan([medPlans |-> medPlans, events |-> storeEvents,
                            notificationRefs |-> notificationRefs], planId)
    IN  /\ Called
        /\ medPlans' = next.medPlans
        /\ storeEvents' = next.events
        /\ notificationRefs' = next.notificationRefs

SetEventsForPlan(p) ==
    /\ Called
    /\ storeEvents' = setEventsForPlan(storeEvents, p.id, StoreEventsOf(p))
    /\ UNCHANGED <<medPlans, notificationRefs>>

OverwriteEvents(evs) ==
    /\ Called
    /\ storeEvents' = overwriteEvents(evs)
    /\ UNCHANGED <<medPlans, notificationRefs>>

UpdateEventStatus(k, status) ==
    /\ Called
    /\ k \in DOMAIN storeEvents
    /\ storeEvents' = updateEventStatus(storeEvents, storeEvents[k].id, status)
    /\ UNCHANGED <<medPlans, notificationRefs>>

ShiftEvent(k, newIso) ==
    /\ Called
    /\ k \in DOMAIN storeEvents
    /\ storeEvents' = shiftEvent(storeEvents, storeEvents[k].id, newIso)
    /\ UNCHANGED <<medPlans, notificationRefs>>

SetNotificationRef(k, notificationId) ==
    /\ Called
    /\ k \in DOMAIN storeEvents
    /\ notificationRefs' =
           setNotificationRef(notificationRefs, storeEvents[k].id, notificationId)
    /\ UNCHANGED <<medPlans, storeEvents>>

ClearNotificationsForPlan(planId) ==
    /\ Called
    /\ notificationRefs' = clearNotificationsForPlan(notificationRefs, planId)
    /\ UNCHANGED <<medPlans, storeEvents>>

\* the first and the last event of the store
Ends == {k \in DOMAIN storeEvents : k = 1 \/ k = Len(storeEvents)}

\* a later minute of the first day and an earlier minute of the second
ShiftedTo == {Some(startAt + 15), Some(MinutesPerDay + 7 * 60)}

NextStore ==
    \/ \E p \in StorePlans : UpsertPlans(<<p>>)
    \/ \E p \in StorePlans : RemovePlan(p.id)
    \/ \E p \in StorePlans : SetEventsForPlan(p)
    \/ \E p \in StorePlans : OverwriteEvents(Reversed(storeEvents \o StoreEventsOf(p)))
    \/ \E k \in Ends, status \in {"taken", "missed"} : UpdateEventStatus(k, status)
    \/ \E k \in Ends, newIso \in ShiftedTo : ShiftEvent(k, newIso)
    \/ \E k \in Ends, notificationId \in {None, Some(1)} :
           SetNotificationRef(k, notificationId)
    \/ \E p \in StorePlans : ClearNotificationsForPlan(p.id)

SpecStore == InitStore /\ [][NextStore]_vars

----------------------------------------------------------------------------
(* The handlers of the Today screen step by step: a handler runs up to its  *)
(* next await and leaves the thread to the others.  A handler that waits is *)
(* [n, kind, eventId, at, target]: the number of the tap that began it, the *)
(* status it sets, the id of its event, the call it awaits ("getAll",       *)
(* "cancel" or "snooze") and the identifier cancelEvent found.  The reply   *)
(* of the system and the code that follows it up to the next await are one  *)
(* step.                                                                    *)

MaxHandlers == 3

\* handleSchedule run to its end for the plans ps from k on:
\* st is <<pending, refs, issued, events>>
RECURSIVE ScheduleAll(_, _, _)
ScheduleAll(ps, k, st) ==
    IF k > Len(ps) THEN st
    ELSE LET eventsForPlan == previewEvents(ps[k])
             made == ScheduleFrom(eventsForPlan, 1,
                                  <<cancelForPlan(st[1], ps[k].id),
                                    clearNotificationsForPlan(st[2], ps[k].id),
                                    st[3]>>)
             next == CHOOSE all \in {<<made[1], made[2], made[3],
                                       setEventsForPlan(st[4], ps[k].id, eventsForPlan)>>} :
                         TRUE
         IN  ScheduleAll(ps, k + 1, next)

TodayDrafts == { <<DailyPlan>>, <<TimedPrnPlan, DailyPlan>> }

\* the Today screen after handleSchedule has run once for the draft
InitToday ==
    /\ pc = "today"
    /\ raw = << >>
    /\ parsed = << >>
    /\ plan = << >>
    /\ startAt \in Nows
    /\ horizonDays = 7
    /\ events = << >>
    /\ reviewText = << >>
    /\ plans = << >>
    /\ errorMessage = None
    /\ draft \in {[rawText |-> << >>, parsed |-> d] : d \in TodayDrafts}
    /\ edits = 0
    /\ \E st \in {ScheduleAll(draft.parsed, 1, <<{}, {}, 0, << >>>>)} :
           /\ scheduled = st[1]
           /\ notificationRefs = st[2]
           /\ issued = st[3]
           /\ storeEvents = SelectSeq(st[4], LAMBDA event : TRUE)
    /\ medPlans = upsertPlans(<< >>, draft.parsed)
    /\ planIndex = 0
    /\ taps = 0
    /\ handlers = {}
    /\ alert = Some(Chars("Scheduled"))

TodayFrame == UNCHANGED <<callVars, reviewVars, medPlans, planIndex, alert>>

\* a press on a button of the k-th event: the handler up to await cancelEvent
Begins(k, kind, evs) ==
    /\ pc = "today"
    /\ taps < MaxHandlers
    /\ k \in DOMAIN storeEvents
    /\ IsToday(storeEvents[k])
    /\ storeEvents' = evs
    /\ handlers' = handlers \cup {[n |-> taps + 1, kind |-> kind,
                                   eventId |-> storeEvents[k].id,
                                   at |-> "getAll", target |-> None]}
    /\ taps' = taps + 1
    /\ UNCHANGED <<scheduled, notificationRefs, issued>>
    /\ TodayFrame

TakenBegins(k) ==
    /\ k \in DOMAIN storeEvents
    /\ storeEvents[k].status # "taken"
    /\ Begins(k, "taken", updateEventStatus(storeEvents, storeEvents[k].id, "taken"))

SkipBegins(k) ==
    /\ k \in DOMAIN storeEvents
    /\ storeEvents[k].status # "missed"
    /\ Begins(k, "missed", updateEventStatus(storeEvents, storeEvents[k].id, "missed"))

SnoozeBegins(k) ==
    /\ k \in DOMAIN storeEvents
    /\ Begins(k, "snoozed",
              shiftEvent(updateEventStatus(storeEvents, storeEvents[k].id, "snoozed"),
                         storeEvents[k].id, Some(startAt + 15)))

\* what follows cancelEvent in the handler h: handleTaken and handleSkip
\* delete the event's entry and end, handleSnooze calls snooze
AfterCancelEvent(h) ==
    IF h.kind = "snoozed"
    THEN /\ handlers' = (handlers \ {h}) \cup {[h EXCEPT !.at = "snooze"]}
         /\ UNCHANGED notificationRefs
    ELSE /\ handlers' = handlers \ {h}
         /\ notificationRefs' = setNotificationRef(notificationRefs, h.eventId, None)

\* getAllScheduledNotificationsAsync answers cancelEvent, which finds no
\* notification of the event and returns
ListedNone(h) ==
    /\ h \in handlers
    /\ h.at = "getAll"
    /\ \A item \in scheduled : item.eventId # h.eventId
    /\ AfterCancelEvent(h)
    /\ UNCHANGED <<scheduled, storeEvents, issued, taps>>
    /\ TodayFrame

\* getAllScheduledNotificationsAsync answers cancelEvent, which finds a
\* notification of the event and asks for its cancellation
ListedOne(h, target) ==
    /\ h \in handlers
    /\ h.at = "getAll"
    /\ target \in scheduled
    /\ target.eventId = h.eventId
    /\ handlers' = (handlers \ {h})
                   \cup {[h EXCEPT !.at = "cancel", !.target = Some(target.identifier)]}
    /\ UNCHANGED <<scheduled, storeEvents, notificationRefs, issued, taps>>
    /\ TodayFrame

\* cancelScheduledNotificationAsync answers: cancelEvent returns
Cancelled(h) ==
    /\ h \in handlers
    /\ h.at = "cancel"
    /\ scheduled' = {item \in scheduled : Some(item.identifier) # h.target}
    /\ AfterCancelEvent(h)
    /\ UNCHANGED <<storeEvents, issued, taps>>
    /\ TodayFrame

\* snooze answers handleSnooze: with the identifier of a new notification
\* when the permission is granted, with undefined when it is not
Snoozed(h, granted) ==
    /\ h \in handlers
    /\ h.at = "snooze"
    /\ handlers' = handlers \ {h}
    /\ IF granted
       THEN /\ scheduled' = snooze(scheduled, h.eventId, issued + 1)
            /\ notificationRefs' =
                   setNotificationRef(notificationRefs, h.eventId, Some(issued + 1))
            /\ issued' = issued + 1
       ELSE UNCHANGED <<scheduled, notificationRefs, issued>>
    /\ UNCHANGED <<storeEvents, taps>>
    /\ TodayFrame

NextToday ==
    \/ \E k \in DOMAIN storeEvents : TakenBegins(k)
    \/ \E k \in DOMAIN storeEvents : SkipBegins(k)
    \/ \E k \in DOMAIN storeEvents : SnoozeBegins(k)
    \/ \E h \in handlers : ListedNone(h)
    \/ \E h \in handlers, target \in scheduled : ListedOne(h, target)
    \/ \E h \in handlers : Cancelled(h)
    \/ \E h \in handlers, granted \in BOOLEAN : Snoozed(h, granted)

SpecToday == InitToday /\ [][NextToday]_vars

----------------------------------------------------------------------------
(* Properties of the parser, under SpecParse *)

Returned == pc = "done"

\* the blocks of raw that buildPlanFromBlock keeps: parsed[k] is the plan of
\* KeptBlocks(raw)[k]
KeptBlocks(rawText) ==
    SelectSeq(collectBlocks(rawText), LAMBDA b : NormalizedLines(b) # << >>)

\* C1: parsing the canonical three-line sample returns exactly two plans, in
\* this order: Amoxicillin with strength "500 mg", frequency TID, durationDays
\* 7 and the timing hint AFTER_MEAL; then Melatonin with strength "3 mg",
\* frequency QHS and no durationDays.
C1_SampleParse ==
    (Returned /\ raw = SAMPLE_TEXT) =>
        /\ Len(parsed) = 2
        /\ parsed[1].name = Chars("Amoxicillin")
        /\ parsed[1].strength = Some(Chars("500 mg"))
        /\ Len(parsed[1].instructions) = 1
        /\ parsed[1].instructions[1].frequency = "TID"
        /\ parsed[1].instructions[1].durationDays = Some(7)
        /\ parsed[1].instructions[1].when = Some(<<"AFTER_MEAL">>)
        /\ parsed[2].name = Chars("Melatonin")
        /\ parsed[2].strength = Some(Chars("3 mg"))
        /\ Len(parsed[2].instructions) = 1
        /\ parsed[2].instructions[1].frequency = "QHS"
        /\ parsed[2].instructions[1].durationDays = None

C1_SampleParsed == Returned /\ raw = SAMPLE_TEXT /\ Len(parsed) = 2

\* the as-needed phrases of the specification, in any letter case
AsNeededPhrases ==
    {Chars("as needed"), Cyr("po trebovaniU"), Cyr("po neobxodimosti")}

HasAsNeededPhrase(text) ==
    \E phrase \in AsNeededPhrases : Includes(ToLowerCase(text), phrase)

\* C6: whenever a block's text contains an explicit as-needed phrase ("as
\* needed", "по требованию", "по необходимости") the instruction's frequency
\* is PRN, whatever other frequency keywords occur in the block and wherever.
C6_PrnPrecedence ==
    Returned =>
        \A k \in 1..Len(parsed) :
            HasAsNeededPhrase(PlainText(KeptBlocks(raw)[k]))
                => parsed[k].instructions[1].frequency = "PRN"

\* the phrases that mean three times a day
ThriceDailyPhrases ==
    {Cyr("3 raza v denq"), Chars("3 times a day"), Chars("tid")}

\* C7: a block whose frequency phrase is the Russian "3 раза в день" and a
\* block whose phrase is the English "3 times a day" or "TID" both parse to
\* frequency TID (the block holds no as-needed phrase).
C7_BilingualTid ==
    Returned =>
        \A k \in 1..Len(parsed) :
            LET text == PlainText(KeptBlocks(raw)[k])
            IN  (/\ \E phrase \in ThriceDailyPhrases : Includes(ToLowerCase(text), phrase)
                 /\ ~HasAsNeededPhrase(text))
                    => parsed[k].instructions[1].frequency = "TID"

\* C8: for every input text, every instruction of every returned plan has a
\* dose.amount that is a number strictly greater than 0, also when the block
\* holds a dose-like phrase with a zero number such as "0 tab" or "0 mg".
C8_PositiveDoseAmount ==
    Returned =>
        \A k \in 1..Len(parsed) :
            \A i \in 1..Len(parsed[k].instructions) :
                LET amount == parsed[k].instructions[i].dose.amount
                IN  ~amount.nan /\ amount.m > 0

\* C10: on an empty or whitespace-only text parsePrescriptionText returns the
\* empty sequence, and a block that is empty after its bullets and numbering
\* are stripped gives no plan: the plans are those of the other blocks, one
\* each, in order.
C10_EmptyInputAndBlocks ==
    Returned =>
        /\ Trim(raw) = << >> => parsed = << >>
        /\ Len(parsed) = Len(KeptBlocks(raw))
        /\ \A k \in 1..Len(parsed) :
               /\ PlainText(KeptBlocks(raw)[k]) # << >>
               /\ parsed[k].strength = extractStrength(PlainText(KeptBlocks(raw)[k]))

C10_BlockDropped ==
    /\ Returned
    /\ Len(KeptBlocks(raw)) < Len(collectBlocks(raw))
    /\ Len(parsed) = 2

PlanIds(ps) == [j \in 1..Len(ps) |-> ps[j].id]

\* C11: parsing the same text again yields the same id for each plan, and
\* within one parse two plans with the same medication name at different
\* ordinal positions have distinct ids.
C11_PlanIds ==
    Returned =>
        /\ PlanIds(parsePrescriptionText(raw)) = PlanIds(parsed)
        /\ \A i, j \in 1..Len(parsed) :
               (i # j /\ parsed[i].name = parsed[j].name) => parsed[i].id # parsed[j].id

HasDosePhrase(text) == Test(DOSE_REGEX, text, TRUE)

HasFrequencyKeyword(text) ==
    \/ Test(PRN_REGEX, text, TRUE)
    \/ \E i \in DOMAIN FREQUENCY_PATTERNS : Test(FREQUENCY_PATTERNS[i].regex, text, TRUE)
    \/ \E i \in DOMAIN LOOSE_PATTERNS : Test(LOOSE_PATTERNS[i].regex, text, TRUE)

HasDurationPhrase(text) == Test(DURATION_REGEX, text, TRUE)

\* the day offsets for which expandPlan makes events of the plan's first
\* instruction over a horizon of a week
WeekOffsets(p) ==
    LET Offsets(evs) ==
            {d \in 0..6 :
                \E k \in DOMAIN evs :
                    StartsWith(evs[k].id, p.id \o Chars("-0-") \o NatToChars(d) \o <<"-">>)}
    IN  Offsets(expandPlan(p, 0, 7))

\* C21: a block that is not empty gives a plan whatever it lacks: without a
\* dose phrase the dose is 1 tablet, without a frequency keyword the
\* frequency is QD, and without a duration phrase durationDays is absent, so
\* that expandPlan goes on to the last day of the horizon.
C21_ConservativeDefaults ==
    Returned =>
        /\ Len(parsed) = Len(KeptBlocks(raw))
        /\ \A k \in 1..Len(parsed) :
               LET text == PlainText(KeptBlocks(raw)[k])
                   instruction == parsed[k].instructions[1]
               IN  /\ Len(parsed[k].instructions) = 1
                   /\ ~HasDosePhrase(text) =>
                          instruction.dose = [amount |-> Num(1), unit |-> "tab"]
                   /\ ~HasFrequencyKeyword(text) => instruction.frequency = "QD"
                   /\ ~HasDurationPhrase(text) =>
                          /\ instruction.durationDays = None
                          /\ WeekOffsets(parsed[k]) # {} => 6 \in WeekOffsets(parsed[k])

C21_NothingStated ==
    /\ Returned
    /\ raw = Chars("Ibuprofen\nafter meals")
    /\ Len(parsed) = 1
    /\ parsed[1].instructions[1].dose = [amount |-> Num(1), unit |-> "tab"]
    /\ parsed[1].instructions[1].frequency = "QD"
    /\ parsed[1].instructions[1].durationDays = None
    /\ WeekOffsets(parsed[1]) = 0..6

\* a substring HH:MM or HH.MM: one or two digits, ":" or ".", two digits
HasClockTime(text) ==
    \E i \in 1..Len(text), h \in {1, 2} :
        /\ i + h + 2 <= Len(text)
        /\ \A j \in i..(i + h - 1) : text[j] \in Digits
        /\ text[i + h] \in {":", "."}
        /\ text[i + h + 1] \in Digits
        /\ text[i + h + 2] \in Digits

\* two digits, ":", two digits
IsPaddedTime(time) ==
    /\ Len(time) = 5
    /\ time[3] = ":"
    /\ \A j \in {1, 2, 4, 5} : time[j] \in Digits

----------------------------------------------------------------------------
(* Properties of expandPlan, under SpecExpand *)

HasPrefix(txt, prefix) ==
    Len(txt) >= Len(prefix) /\ SubSeq(txt, 1, Len(prefix)) = prefix

\* the events of instruction i (counting from 1) that were made in the pass
\* of the loop for day offset d
EventsAt(i, d) ==
    {k \in 1..Len(events) :
        HasPrefix(events[k].id,
                  plan.id \o <<"-">> \o NatToChars(i - 1) \o <<"-">>
                  \o NatToChars(d) \o <<"-">>)}

\* the events of instruction i
EventsOfIndex(i) ==
    {k \in 1..Len(events) :
        HasPrefix(events[k].id, plan.id \o <<"-">> \o NatToChars(i - 1) \o <<"-">>)}

ResolvedTimes(instruction) ==
    timesForInstruction(instruction.frequency, instruction.timesOfDay)

\* skipped as PRN: frequency PRN and no clock time
SkippedAsPrn(instruction) ==
    instruction.frequency = "PRN" /\ ResolvedTimes(instruction) = << >>

\* min(horizonDays, durationDays), durationDays absent meaning horizonDays
DayLimit(instruction) ==
    IF instruction.durationDays # None /\ instruction.durationDays[1] < horizonDays
    THEN instruction.durationDays[1]
    ELSE horizonDays

\* the calendar day of an event, counted from the start day
DayOf(event) == (event.at[1] - StartOfDay(startAt)) \div MinutesPerDay

\* C2: for the canonical sample, the single instruction of both parsed plans
\* has dose amount 1 and unit tablet, so that every event expandPlan makes of
\* either plan carries the dose label "1 tab".
C2_SampleDoseLabel ==
    (pc = "done" /\ plan \in SamplePlans) =>
        /\ Len(plan.instructions) = 1
        /\ plan.instructions[1].dose = [amount |-> Num(1), unit |-> "tab"]
        /\ \A k \in 1..Len(events) : events[k].dose = Chars("1 tab")

\* C3: for every instruction that is not QOD and not skipped as PRN, events
\* are made exactly for the day offsets 0 .. min(horizonDays, durationDays)-1
\* (durationDays absent means horizonDays), one per resolved clock time per
\* day; so durationDays 3 over horizon 7 gives the offsets 0, 1, 2 only, and a
\* TID instruction with durationDays 7 gives 21 events for horizon 7 and
\* still 21 for horizon 14.
C3_DurationCap ==
    pc = "done" =>
        \A i \in 1..Len(plan.instructions) :
            LET instruction == plan.instructions[i]
            IN  (instruction.frequency # "QOD" /\ ~SkippedAsPrn(instruction)) =>
                    /\ \A d \in 0..MaxHorizon :
                          Cardinality(EventsAt(i, d)) =
                              IF d < DayLimit(instruction)
                              THEN Len(ResolvedTimes(instruction)) ELSE 0
                    /\ (instruction.durationDays = Some(3) /\ horizonDays = 7) =>
                          {d \in 0..MaxHorizon : EventsAt(i, d) # {}} = {0, 1, 2}
                    /\ (/\ instruction.frequency = "TID"
                        /\ instruction.timesOfDay = None
                        /\ instruction.durationDays = Some(7)
                        /\ horizonDays \in {7, 14}) =>
                          Cardinality(EventsOfIndex(i)) = 21

C3_CapBelowHorizon ==
    /\ pc = "done"
    /\ horizonDays = 14
    /\ Len(plan.instructions) = 1
    /\ plan.instructions[1].frequency = "TID"
    /\ plan.instructions[1].durationDays = Some(7)
    /\ Len(events) = 21

\* C4: for a QOD instruction the day offsets that carry events are exactly
\* the even offsets below min(horizonDays, durationDays), counted from the
\* start day (offset 0 is there whenever horizonDays >= 1); for horizon 7
\* with no duration cap they are exactly {0, 2, 4, 6}.
C4_QodEvenOffsets ==
    pc = "done" =>
        \A i \in 1..Len(plan.instructions) :
            LET instruction == plan.instructions[i]
                offsets == {d \in 0..MaxHorizon : EventsAt(i, d) # {}}
            IN  instruction.frequency = "QOD" =>
                    /\ offsets = {d \in 0..MaxHorizon :
                                     d < DayLimit(instruction) /\ d % 2 = 0}
                    /\ horizonDays >= 1 => 0 \in offsets
                    /\ (horizonDays = 7 /\ instruction.durationDays = None) =>
                          offsets = {0, 2, 4, 6}

C4_QodOverSevenDays ==
    /\ pc = "done"
    /\ horizonDays = 7
    /\ Len(plan.instructions) = 1
    /\ plan.instructions[1].frequency = "QOD"
    /\ plan.instructions[1].durationDays = None
    /\ Len(events) = 4

\* the events an instruction gives by itself: none when it is PRN without
\* explicit times, else one per resolved time on each day below the limit
\* (each even day for QOD)
ExpectedCount(instruction) ==
    IF instruction.frequency = "PRN" /\ instruction.timesOfDay \in {None, Some(<< >>)}
    THEN 0
    ELSE Len(ResolvedTimes(instruction))
         * Cardinality({d \in 0..(DayLimit(instruction) - 1) :
                           instruction.frequency = "QOD" => d % 2 = 0})

RECURSIVE ExpectedFrom(_)
ExpectedFrom(i) ==
    IF i > Len(plan.instructions) THEN 0
    ELSE ExpectedCount(plan.instructions[i]) + ExpectedFrom(i + 1)

\* C5: an instruction with frequency PRN and no explicit timesOfDay (absent
\* or empty) contributes zero events, for every horizonDays and every
\* durationDays; the other instructions of the plan are unaffected: each
\* gives the events it gives by itself, and there are no other events.
C5_PrnSuppressed ==
    pc = "done" =>
        /\ \A i \in 1..Len(plan.instructions) :
               Cardinality(EventsOfIndex(i)) = ExpectedCount(plan.instructions[i])
        /\ Len(events) = ExpectedFrom(1)

C5_PrnBesideTid ==
    /\ pc = "done"
    /\ horizonDays = 7
    /\ Len(plan.instructions) = 2
    /\ plan.instructions[1].frequency = "PRN"
    /\ plan.instructions[1].timesOfDay = None
    /\ plan.instructions[1].durationDays = Some(3)
    /\ plan.instructions[2].frequency = "TID"
    /\ plan.instructions[2].durationDays = None
    /\ Len(events) = 21

\* C12: within the result of one expandPlan call no two events have the same
\* id, whatever the instructions and the strings of timesOfDay are.
C12_UniqueEventIds ==
    pc = "done" =>
        \A i, j \in 1..Len(events) : events[i].id = events[j].id => i = j

C14_EventFields ==
    pc = "done" =>
        /\ \A k \in 1..Len(events) :
               /\ events[k].status = "scheduled"
               /\ events[k].medPlanId = plan.id
               /\ \E i \in 1..Len(plan.instructions) : k \in EventsOfIndex(i)
        /\ \A i \in 1..Len(plan.instructions) :
               LET instruction == plan.instructions[i]
               IN  /\ \A k \in EventsOfIndex(i) :
                          events[k].windowMins =
                              IF instruction.frequency = "PRN" THEN None ELSE Some(30)
                   /\ (instruction.frequency = "PRN" /\ EventsOfIndex(i) # {}) =>
                          /\ instruction.timesOfDay # None
                          /\ instruction.timesOfDay[1] # << >>

C14_PrnWithTimes ==
    /\ pc = "done"
    /\ plan.instructions[1].frequency = "PRN"
    /\ plan.instructions[1].timesOfDay =
           Some(<<Chars("20:00"), Chars("08:00"), Chars("20:00")>>)
    /\ Len(events) = 6
    /\ \A k \in 1..Len(events) : events[k].windowMins = None

\* C16: the sequence expandPlan returns is sorted: timestamps do not decrease
\* along it, for plans of several instructions and for hand-edited timesOfDay
\* too, and no occurrence of an instruction is in it twice.
C16_SortedEvents ==
    pc = "done" =>
        /\ \A k \in 1..(Len(events) - 1) : events[k].at[1] <= events[k + 1].at[1]
        /\ \A i \in 1..Len(plan.instructions) :
               \A j, k \in EventsOfIndex(i) : events[j].at = events[k].at => j = k

\* the default clock times of each frequency, as the specification lists them
DefaultClockTimes(frequency) ==
    CASE frequency = "QD" -> <<Chars("09:00")>>
      [] frequency = "BID" -> <<Chars("08:00"), Chars("20:00")>>
      [] frequency = "TID" -> <<Chars("08:00"), Chars("14:00"), Chars("20:00")>>
      [] frequency = "QID" ->
             <<Chars("06:00"), Chars("12:00"), Chars("18:00"), Chars("22:00")>>
      [] frequency = "QHS" -> <<Chars("22:30")>>
      [] frequency = "QAM" -> <<Chars("08:00")>>
      [] frequency = "QPM" -> <<Chars("20:00")>>
      [] frequency = "QOD" -> <<Chars("09:00")>>
      [] frequency = "PRN" -> << >>

\* the distinct values of times, each once, in ascending order of strings
SortedDistinct(times) ==
    CHOOSE t \in [1..Cardinality(Range(times)) -> Range(times)] :
        /\ Range(t) = Range(times)
        /\ \A a, b \in DOMAIN t : a < b => LessStr(t[a], t[b])

\* the clock times the specification resolves for an instruction
ExpectedTimes(instruction) ==
    IF instruction.timesOfDay # None /\ instruction.timesOfDay[1] # << >>
    THEN SortedDistinct(instruction.timesOfDay[1])
    ELSE DefaultClockTimes(instruction.frequency)

\* the instants of the events of instruction i on the start day, in order
FirstDayInstants(i) ==
    LET OfFirstDay(event) ==
            HasPrefix(event.id,
                      plan.id \o <<"-">> \o NatToChars(i - 1) \o <<"-">>
                      \o NatToChars(0) \o <<"-">>)
        Instants(evs) == [k \in 1..Len(evs) |-> evs[k].at]
    IN  Instants(SelectSeq(events, OfFirstDay))

\* C19: an instruction with a non-empty timesOfDay is expanded at exactly its
\* distinct values, sorted, whatever its frequency; any other instruction at
\* the defaults of its frequency: QD 09:00; BID 08:00, 20:00; TID 08:00,
\* 14:00, 20:00; QID 06:00, 12:00, 18:00, 22:00; QHS 22:30; QAM 08:00;
\* QPM 20:00; QOD 09:00; PRN none.
C19_ClockTimes ==
    (pc = "done" /\ horizonDays >= 1) =>
        \A i \in 1..Len(plan.instructions) :
            LET expected == ExpectedTimes(plan.instructions[i])
            IN  FirstDayInstants(i) =
                    [k \in 1..Len(expected) |->
                        Occurrence(StartOfDay(startAt), 0, expected[k])]

C19_ExplicitOverDefaults ==
    /\ pc = "done"
    /\ horizonDays = 1
    /\ startAt = 0
    /\ Len(plan.instructions) = 1
    /\ plan.instructions[1].frequency = "TID"
    /\ plan.instructions[1].timesOfDay =
           Some(<<Chars("20:00"), Chars("08:00"), Chars("20:00")>>)
    /\ FirstDayInstants(1) = <<Some(480), Some(1200)>>

\* the label the specification gives a dose
DoseLabel(dose) ==
    LET singular == dose.amount = Num(1)
        rendered ==
            CASE dose.unit = "tab" -> IF singular THEN "tab" ELSE "tabs"
              [] dose.unit = "caps" -> IF singular THEN "cap" ELSE "caps"
              [] dose.unit = "drops" -> IF singular THEN "drop" ELSE "drops"
              [] dose.unit = "sprays" -> IF singular THEN "spray" ELSE "sprays"
              [] dose.unit = "mg" -> "mg"
              [] dose.unit = "ml" -> "ml"
    IN  NumToChars(dose.amount) \o <<" ">> \o Chars(rendered)

\* C20: every event's dose is "<amount> <unit>": tab, caps, drops and sprays
\* are rendered singular (tab, cap, drop, spray) exactly when the amount is 1
\* and plural otherwise, mg and ml unchanged for every amount; 1 tablet gives
\* "1 tab" and 2 tablets give "2 tabs".
C20_DoseLabel ==
    pc = "done" =>
        \A i \in 1..Len(plan.instructions) :
            LET dose == plan.instructions[i].dose
            IN  \A k \in EventsOfIndex(i) :
                    /\ events[k].dose = DoseLabel(dose)
                    /\ dose = [amount |-> Num(1), unit |-> "tab"] =>
                           events[k].dose = Chars("1 tab")
                    /\ dose = [amount |-> Num(2), unit |-> "tab"] =>
                           events[k].dose = Chars("2 tabs")

C20_TwoTablets ==
    /\ pc = "done"
    /\ Len(plan.instructions) = 1
    /\ plan.instructions[1].dose = [amount |-> Num(2), unit |-> "tab"]
    /\ Len(events) = 1
    /\ events[1].dose = Chars("2 tabs")

\* the events of instruction i made for day offset d, in their order
EventsOfDayAt(i, d) ==
    LET MadeThen(event) ==
            HasPrefix(event.id,
                      plan.id \o <<"-">> \o NatToChars(i - 1) \o <<"-">>
                      \o NatToChars(d) \o <<"-">>)
    IN  SelectSeq(events, MadeThen)

\* <<instruction index, day offset>> of an event, read from its id, which is
\* the plan's id, "-", the index, "-", the offset, "-" and the time
MadeFor(event) ==
    LET tail == SubSeq(event.id, Len(plan.id) + 2, Len(event.id))
        index == ParseInt(tail)[1]
        rest == SubSeq(tail, Len(NatToChars(index)) + 2, Len(tail))
    IN  <<index, ParseInt(rest)[1]>>

\* C22: expandPlan returns its events in generation order: all events of an
\* instruction before those of a later instruction, within an instruction by
\* ascending day offset, and within a day in the order of the resolved
\* (sorted) clock times.
C22_GenerationOrder ==
    pc = "done" =>
        /\ \A k \in 1..(Len(events) - 1) :
               LET this == MadeFor(events[k])
                   next == MadeFor(events[k + 1])
               IN  \/ this[1] < next[1]
                   \/ this[1] = next[1] /\ this[2] <= next[2]
        /\ \A i \in 1..Len(plan.instructions), d \in 0..MaxHorizon :
               LET expected == ExpectedTimes(plan.instructions[i])
                   made == EventsOfDayAt(i, d)
               IN  made # << >> =>
                       /\ Len(made) = Len(expected)
                       /\ \A k \in 1..Len(made) :
                              made[k].at = Occurrence(StartOfDay(startAt), d, expected[k])

C22_TwoInstructions ==
    /\ pc = "done"
    /\ horizonDays = 14
    /\ Len(plan.instructions) = 2
    /\ plan.instructions[1].frequency = "QOD"
    /\ plan.instructions[2].frequency = "TID"
    /\ Len(events) = 49

\* C24: every event made for day offset d lies on the calendar day d after
\* the start day, from its midnight up to the next, and so inside the
\* horizon, for every timesOfDay the parser can produce.
C24_EventOnItsDay ==
    pc = "done" =>
        \A k \in 1..Len(events) :
            /\ DayOf(events[k]) = MadeFor(events[k])[2]
            /\ events[k].at[1] < StartOfDay(startAt) + horizonDays * MinutesPerDay

----------------------------------------------------------------------------
(* Properties of the review screen, under Spec *)

PrnIffFrequency(instruction) ==
    /\ instruction.prn \in {None, Some(TRUE)}
    /\ instruction.prn = Some(TRUE) <=> instruction.frequency = "PRN"

\* C9: in every instruction the parser makes, and in every instruction after
\* any sequence of edits of the review screen through updateInstruction, the
\* prn flag is true exactly when frequency is PRN.
C9_PrnFlag ==
    \A list \in {plans, draft.parsed} :
        \A j \in 1..Len(list) :
            \A i \in 1..Len(list[j].instructions) :
                PrnIffFrequency(list[j].instructions[i])

C9_EditedToAndFromPrn ==
    /\ edits = MaxEdits
    /\ Len(plans) = 1
    /\ draft.parsed[1].instructions[1].frequency = "PRN"
    /\ plans[1].instructions[1].frequency = "TID"
    /\ plans[1].instructions[1].prn = None

----------------------------------------------------------------------------
(* Properties of the schedule screen, the Today screen and the notifier,   *)
(* under SpecApp                                                           *)

\* a run of handleSchedule ends
ScheduleEnds ==
    pc = "scheduleEvents" /\ pc' = "idle" /\ alert' = Some(Chars("Scheduled"))

\* the ids of the stored events that have no windowMins: those of PRN
PrnEventIds == {storeEvents[k].id : k \in {j \in DOMAIN storeEvents :
                                             storeEvents[j].windowMins = None}}

\* the events without windowMins that the plans of the draft expand to
PrnPreviewIds ==
    UNION {{previewEvents(draft.parsed[j])[k].id :
               k \in {i \in DOMAIN previewEvents(draft.parsed[j]) :
                          previewEvents(draft.parsed[j])[i].windowMins = None}} :
           j \in DOMAIN draft.parsed}

EventIdsOfPlan(planId) ==
    {storeEvents[k].id : k \in {j \in DOMAIN storeEvents :
                                   storeEvents[j].medPlanId = planId}}

\* handleTaken or handleSkip has run for the k-th event of the store
DoneWith(k) ==
    /\ pc = "idle"
    /\ pc' = "idle"
    /\ taps' = taps + 1
    /\ storeEvents' = [storeEvents EXCEPT ![k].status = storeEvents'[k].status]
    /\ storeEvents'[k].status \in {"taken", "missed"}
    /\ storeEvents'[k].status # storeEvents[k].status

\* C17: after cancelForPlan(planId) completes no pending notification
\* remains for any event of that plan, and after cancelEvent(eventId)
\* completes none remains for that event, whatever scheduleLocal, snooze,
\* cancelEvent and cancelForPlan did before.
C17_CancelByEitherKey ==
    [][/\ (pc = "cancelForPlan" /\ pc' = "scheduleEvents") =>
             \A item \in scheduled' :
                 item.eventId \notin EventIdsOfPlan(draft.parsed[planIndex].id)
       /\ \A k \in DOMAIN storeEvents :
             DoneWith(k) =>
                 \A item \in scheduled' : item.eventId # storeEvents[k].id]_vars

\* the plans of the draft all of whose instructions are PRN
PrnPlanIds ==
    {draft.parsed[j].id :
        j \in {i \in DOMAIN draft.parsed :
                  \A n \in DOMAIN draft.parsed[i].instructions :
                      draft.parsed[i].instructions[n].frequency = "PRN"}}

\* C18: a PRN medication that went through handleSchedule is visible in the
\* Today view: among the stored events of today there is one of each PRN
\* plan that was scheduled, one without explicit timesOfDay too.
C18_PrnShownToday ==
    [][ScheduleEnds =>
          \A planId \in PrnPlanIds :
              \E k \in DOMAIN todayEvents' : todayEvents'[k].medPlanId = planId]_vars

\* C29: when the notification permission is not granted, neither already nor
\* on request, handleSchedule leaves store.medPlans, store.events and
\* store.notificationRefs as they were, cancels and registers no
\* notification, and resets isScheduling.
C29_DeniedChangesNothing ==
    [][\A current, requested \in BOOLEAN :
           EnsurePermissions(current, requested) /\ ~current /\ ~requested =>
               /\ UNCHANGED <<medPlans, storeEvents, notificationRefs, scheduled, issued>>
               /\ isScheduling
               /\ ~isScheduling']_vars

\* the permission was refused when plans were scheduled already
C29_DeniedAfterScheduled ==
    /\ pc = "idle"
    /\ alert = Some(Chars("Permission needed"))
    /\ medPlans # << >>
    /\ storeEvents # << >>
    /\ notificationRefs # {}
    /\ scheduled # {}

\* C30: whenever handleSchedule is not in progress, every event of
\* store.events has the id of a plan of store.medPlans as its medPlanId,
\* also after a run of handleSchedule that failed part-way.
C30_EventsHavePlans ==
    ~isScheduling =>
        \A k \in DOMAIN storeEvents :
            \E j \in DOMAIN medPlans : medPlans[j].id = storeEvents[k].medPlanId

----------------------------------------------------------------------------
(* Properties of the store, under SpecStore *)

Chronological(evs) ==
    \A k \in 1..(Len(evs) - 1) : evs[k].at[1] <= evs[k + 1].at[1]

PlansStored == {storeEvents[k].medPlanId : k \in DOMAIN storeEvents}

\* C25: in every reachable state of the store, store.events is ordered by
\* non-decreasing timestamp, whichever of setEventsForPlan, overwriteEvents,
\* shiftEvent, updateEventStatus and removePlan have been called.
C25_EventsChronological == Chronological(storeEvents)

\* the events of two plans, one of them shifted from the first day to
\* 07:00 of the second and now between two others
C25_ShiftedBetween ==
    /\ pc = "store"
    /\ Cardinality(PlansStored) >= 2
    /\ \E k \in 2..(Len(storeEvents) - 1) :
           /\ storeEvents[k].at = Some(MinutesPerDay + 7 * 60)
           /\ storeEvents[k - 1].at[1] < storeEvents[k].at[1]
           /\ storeEvents[k].at[1] < storeEvents[k + 1].at[1]

DistinctIds(evs) == \A j, k \in DOMAIN evs : evs[j].id = evs[k].id => j = k

OfOtherPlans(evs, planId) == SelectSeq(evs, LAMBDA event : event.medPlanId # planId)

\* C26: setEventsForPlan(planId, E) with E the events expandPlan makes of the
\* plan: a second call with the same E leaves store.events as the first did,
\* the events of the other plans are retained unchanged, and no two events of
\* store.events share an id when none did before.
C26_Rescheduling ==
    [][\A p \in StorePlans :
           SetEventsForPlan(p) =>
               /\ setEventsForPlan(storeEvents', p.id, StoreEventsOf(p)) = storeEvents'
               /\ OfOtherPlans(storeEvents', p.id) = OfOtherPlans(storeEvents, p.id)
               /\ DistinctIds(storeEvents) => DistinctIds(storeEvents')]_vars

\* the ids of the events expandPlan makes of a plan
EventIdsMadeOf(p) == {StoreEventsOf(p)[k].id : k \in DOMAIN StoreEventsOf(p)}

\* C27: removePlan(planId) and clearNotificationsForPlan(planId) remove the
\* notificationRefs entries of the events of the plan and leave every entry
\* of an event of another plan, also of a plan whose id begins with the
\* plan's id and a dash.
C27_OnlyOwnRefs ==
    [][\A p \in StorePlans :
           RemovePlan(p.id) \/ ClearNotificationsForPlan(p.id) =>
               notificationRefs' =
                   {ref \in notificationRefs : ref.eventId \notin EventIdsMadeOf(p)}]_vars

----------------------------------------------------------------------------
(* Properties of the handlers of the Today screen, under SpecToday *)

\* the handler h ends with this step
Completes(h) == h \in handlers /\ \A g \in handlers' : g.n # h.n

\* C28: when handleTaken or handleSkip ends for an event, no pending
\* notification carries the event's id and notificationRefs has no entry for
\* it, whatever handleSnooze calls for the same event run beside it.
C28_NothingLeftOfEvent ==
    [][\A h \in handlers :
           Completes(h) /\ h.kind \in {"taken", "missed"} =>
               /\ \A item \in scheduled' : item.eventId # h.eventId
               /\ \A ref \in notificationRefs' : ref.eventId # h.eventId]_vars

=============================================================================
